---- MODULE Spec2Model ----
(***************************************************************************)
(* A model of vedro's core: the scenario runner (vedro/_core/_runner.py),  *)
(* the tail of the run command that drives it, the Report it fills, and    *)
(* the event dispatcher the runner fires its lifecycle events through.     *)
(*                                                                         *)
(* Spec            the run command's tail: Runner.run over a list of       *)
(*                 scenarios, then the cleanup event.                      *)
(* SpecDispatcher  Dispatcher.listen / Dispatcher.fire on their own.       *)
(* SpecScheduler   a ScenarioScheduler: schedule, ignore and the iteration *)
(*                 steps of the run loop, in any interleaving.             *)
(* SpecIteration   the iteration of a ScenarioScheduler nobody else calls. *)
(* SpecView        the scenarios property of a ScenarioScheduler stepped   *)
(*                 while ignore is called.                                 *)
(* SpecAggregate   the resolution of the results of one scenario:          *)
(*                 _find_resolution, AggregatedResult.from_existing and    *)
(*                 aggregate_results.                                      *)
(* SpecResult      the setters of one ScenarioResult, called in any order. *)
(* SpecReport      one Report: add_result, add_summary and the summary     *)
(*                 property, called in any order.                          *)
(* SpecPlugins     the head of the run command: the plugin descriptors are *)
(*                 validated, the enabled ones ordered, instantiated and   *)
(*                 registered, and the first event is fired.               *)
(* SpecCommand     the whole run command, from the registration of the     *)
(*                 plugins to the cleanup event.                           *)
(* SpecDeferrer    the DeferrerPlugin: defer calls and the events it       *)
(*                 listens to, in any order.                               *)
(* SpecUpgrade     the SystemUpgradePlugin: its startup and cleanup        *)
(*                 handlers and the thread that fetches the version.       *)
(***************************************************************************)
EXTENDS Integers, Sequences, FiniteSets

(***************************************************************************)
(* Bounds of the model.                                                    *)
(***************************************************************************)
MaxScenarios == 2
MaxSteps == 3
MaxHandlers == 3
MaxIds == 3
MaxCalls == 2
MaxResults == 3
MaxTime == 1
MaxSetterCalls == 3
MaxAdds == 2
MaxLines == 2
MaxPlugins == 2
MaxDefers == 3
MaxFires == 3
MaxArgs == 2
MaxVersion == 1

(***************************************************************************)
(* Values of the program.                                                  *)
(***************************************************************************)
\* Python's None in a timestamp field.
NONE == -1

\* The exception types the runner is configured to treat as interrupts.
interrupt_exceptions == {"KeyboardInterrupt", "SystemExit", "CancelledError"}

\* The exception types a step body is taken to raise: an ordinary failure and
\* the interrupt kinds.
StepExceptions == {"AssertionError"} \cup interrupt_exceptions

\* What an event handler raises when it fails.
HandlerError == "HandlerError"

VARIABLES
    \* ---- Runner / RunCommand ----
    pc,               \* position of the single thread of control
    firing,           \* TRUE while dispatcher.fire(...) is awaited
    n_scenarios,      \* len(scenarios) given to Runner.run
    idx,              \* number of scenarios the run loop has taken
    scenario,         \* the scenario of the current run_scenario call
    step_idx,         \* number of steps of it that run_step has returned for
    scenario_result,  \* the ScenarioResult of the current run_scenario call
    step_result,      \* the StepResult of the current run_step call
    report,           \* the Report local to Runner.run
    now,              \* the clock read by time()
    events,           \* events fired so far, in order
    invoked,          \* steps of the current scenario whose body was called
    exc,              \* the exception propagating out of the run, or "None"
    returned,         \* what Runner.run returned
    cleanup,          \* the report carried by the CleanupEvent fired
    \* ---- Dispatcher ----
    registry,         \* registered handlers, in registration order
    d_state,          \* "idle" | "firing" | "returned" | "raised"
    d_event,          \* the type of the event being fired
    d_pos,            \* how many registry entries fire has gone through
    d_active,         \* handlers invoked and not yet completed
    d_log,            \* handler starts and ends of the current fire
    \* ---- ScenarioScheduler ----
    s_input,          \* unique_ids of the scenarios given to __init__, in order
    s_scenarios,      \* keys of self._scenarios, in the order of the OrderedDict
    s_yielded,        \* what the iteration steps have yielded so far, in order
    s_done,           \* TRUE once an iteration step raised StopAsyncIteration
    s_op,             \* the last call made on the scheduler
    s_ignored,        \* unique_ids ignored and not scheduled again since
    s_calls,          \* number of schedule and ignore calls made
    \* ---- resolution of the results of one scenario ----
    a_results,        \* the results of the executions of one scenario
    a_main,           \* the main result given to from_existing
    a_call,           \* the function called, or "None"
    a_out,            \* what the call returned
    a_raised,         \* what the call raised, or "None"
    \* ---- one ScenarioResult and its setters ----
    sr_result,        \* the fields of the ScenarioResult
    sr_log,           \* the setter calls made on it, in order
    \* ---- one Report ----
    rp_report,        \* the fields of the Report
    rp_calls,         \* number of add_result calls made
    rp_counts,        \* per status, the number of results added with it
    rp_starts,        \* the started_at values (not None) of the results added
    rp_ends,          \* the ended_at values (not None) of the results added
    rp_lines,         \* the lines given to add_summary, in order
    rp_got,           \* the list the summary property returned last
    \* ---- RunCommand and the plugin descriptors ----
    p_config,         \* Config.Plugins: the descriptors, in declaration order
    p_pc,             \* position of RunCommand.run
    p_pos,            \* number of descriptors the current loop has gone through
    p_validated,      \* the descriptors validated so far
    p_plugins,        \* the enabled descriptors collected, then ordered
    p_instances,      \* per descriptor, the number of plugin objects made of it
    p_registered,     \* the descriptors whose plugin was registered, in order
    p_error,          \* the exception RunCommand.run raised, or "None"
    p_fired,          \* the events fired on the dispatcher
    p_invoked,        \* the descriptors whose plugin had a handler invoked
    \* ---- the scenarios view of a ScenarioScheduler ----
    v_input,          \* unique_ids of the scenarios given to __init__, in order
    v_keys,           \* keys of self._scenarios, in the order of the OrderedDict
    v_pc,             \* "created" | "iterating" | "exhausted": the generator
    v_snapshot,       \* list(self._scenarios.keys()) taken by the generator
    v_pos,            \* number of entries of it the loop has gone through
    v_yielded,        \* what the generator has yielded so far, in order, each
                      \* with the ids that had been ignored before it was
    v_ignored,        \* the ids ignore was called with so far
    v_raised,         \* what the last step raised, or "None"
    v_calls,          \* number of ignore calls made
    \* ---- DeferrerPlugin ----
    df_queue,         \* self._queue: the deferred callbacks, oldest first
    df_pc,            \* "idle" | "draining" | "returned" | "raised"
    df_event,         \* the event the last handler call was for, or "None"
    df_active,        \* callbacks called and not yet completed
    df_at_fire,       \* the queue when the last scenario-end event was fired
    df_ran,           \* the callbacks called for that event, in order
    df_runs,          \* per callback, the number of times it was called
    df_stale,         \* callbacks that were in the queue when it was cleared
    df_raised,        \* the callback that raised during that event, or 0
    df_n,             \* number of defer calls made
    df_fires,         \* number of events fired
    \* ---- SystemUpgradePlugin ----
    su_pc,            \* position of the run: "init" ... "cleaned"
    su_thread,        \* self._thread: "None" or "Thread"
    su_fetch,         \* the thread: "not_started" | "requesting" | "responded" | "done"
    su_response,      \* what _send_request returned to the thread
    su_latest,        \* self._latest_version
    su_cur,           \* self._cur_version
    su_lines,         \* the lines on_cleanup added to the report
    su_seen,          \* what on_cleanup read in self._latest_version
    su_fetch_at_read, \* where the thread was when on_cleanup read it
    su_raised         \* what on_cleanup raised, or "None"

runner_vars == <<pc, firing, n_scenarios, idx, scenario, step_idx, scenario_result,
                 step_result, report, now, events, invoked, exc, returned, cleanup>>
dispatcher_vars == <<registry, d_state, d_event, d_pos, d_active, d_log>>
scheduler_vars == <<s_input, s_scenarios, s_yielded, s_done, s_op, s_ignored, s_calls>>
aggregate_vars == <<a_results, a_main, a_call, a_out, a_raised>>
result_vars == <<sr_result, sr_log>>
report_vars == <<rp_report, rp_calls, rp_counts, rp_starts, rp_ends, rp_lines, rp_got>>
plugin_vars == <<p_config, p_pc, p_pos, p_validated, p_plugins, p_instances, p_registered,
                 p_error, p_fired, p_invoked>>
view_vars == <<v_input, v_keys, v_pc, v_snapshot, v_pos, v_yielded, v_ignored, v_raised,
               v_calls>>
deferrer_vars == <<df_queue, df_pc, df_event, df_active, df_at_fire, df_ran, df_runs,
                   df_stale, df_raised, df_n, df_fires>>
upgrade_vars == <<su_pc, su_thread, su_fetch, su_response, su_latest, su_cur, su_lines,
                  su_seen, su_fetch_at_read, su_raised>>
vars == <<runner_vars, dispatcher_vars, scheduler_vars, aggregate_vars, result_vars,
          report_vars, plugin_vars, view_vars, deferrer_vars, upgrade_vars>>

\* What the actions of one component leave alone.
outside_runner == <<dispatcher_vars, scheduler_vars, aggregate_vars, result_vars,
                    report_vars, plugin_vars,
    view_vars, deferrer_vars, upgrade_vars>>
outside_dispatcher == <<runner_vars, scheduler_vars, aggregate_vars, result_vars,
                        report_vars, plugin_vars,
    view_vars, deferrer_vars, upgrade_vars>>
outside_scheduler == <<runner_vars, dispatcher_vars, aggregate_vars, result_vars,
                       report_vars, plugin_vars,
    view_vars, deferrer_vars, upgrade_vars>>
outside_aggregate == <<runner_vars, dispatcher_vars, scheduler_vars, result_vars,
                       report_vars, plugin_vars,
    view_vars, deferrer_vars, upgrade_vars>>
outside_result == <<runner_vars, dispatcher_vars, scheduler_vars, aggregate_vars,
                    report_vars, plugin_vars,
    view_vars, deferrer_vars, upgrade_vars>>
outside_report == <<runner_vars, dispatcher_vars, scheduler_vars, aggregate_vars,
                    result_vars, plugin_vars,
    view_vars, deferrer_vars, upgrade_vars>>
outside_plugins == <<runner_vars, dispatcher_vars, scheduler_vars, aggregate_vars,
                     result_vars, report_vars,
    view_vars, deferrer_vars, upgrade_vars>>
outside_view == <<runner_vars, dispatcher_vars, scheduler_vars, aggregate_vars,
                  result_vars, report_vars, plugin_vars, deferrer_vars, upgrade_vars>>
outside_deferrer == <<runner_vars, dispatcher_vars, scheduler_vars, aggregate_vars,
                      result_vars, report_vars, plugin_vars, view_vars, upgrade_vars>>
outside_upgrade == <<runner_vars, dispatcher_vars, scheduler_vars, aggregate_vars,
                     result_vars, report_vars, plugin_vars, view_vars, deferrer_vars>>

(***************************************************************************)
(* Results and the report.                                                 *)
(***************************************************************************)
\* StepResult(step): pending, no timestamps, no exception.
StepResult(step) ==
    [step |-> step, status |-> "PENDING", started_at |-> NONE, ended_at |-> NONE,
     exc_info |-> "None"]

\* No run_step call is in progress.
NoStepResult == StepResult(0)

\* A ScenarioResult that has its start time from its construction.
ScenarioResult_Started ==
    [status |-> "PENDING", started_at |-> 0, ended_at |-> NONE, step_results |-> <<>>,
     scope_set |-> FALSE]

\* ScenarioResult(scenario): pending, no timestamps, no step results, no scope.
ScenarioResult ==
    [status |-> "PENDING", started_at |-> NONE, ended_at |-> NONE,
     step_results |-> <<>>, scope_set |-> FALSE]

\* A Report whose timestamps start at 0.0 instead of None.
Report_ZeroTimestamps ==
    [summary |-> <<>>, total |-> 0, passed |-> 0, failed |-> 0, skipped |-> 0,
     started_at |-> 0, ended_at |-> 0]

\* Report(): no summary line, all counters 0, timestamps unset.
Report ==
    [summary |-> <<>>, total |-> 0, passed |-> 0, failed |-> 0, skipped |-> 0,
     started_at |-> NONE, ended_at |-> NONE]

\* No Report object: Runner.run has not made or returned one, no CleanupEvent
\* carries one.
NoReport == [Report EXCEPT !.total = NONE]

is_failed(result) == result.status = "FAILED"
is_passed(result) == result.status = "PASSED"
is_skipped(result) == result.status = "SKIPPED"

Min(a, b) == IF a <= b THEN a ELSE b
Max(a, b) == IF a >= b THEN a ELSE b

\* A timestamp is truthy when it is set and not 0.
Truthy(t) == t # NONE /\ t # 0

\* Report.add_result without the branch that counts a skipped result.
add_result_SkippedNotCounted(rep, result) ==
    LET counted ==
            [rep EXCEPT !.total = @ + 1,
                        !.passed = IF is_passed(result) THEN @ + 1 ELSE @,
                        !.failed = IF ~is_passed(result) /\ is_failed(result)
                                   THEN @ + 1 ELSE @]
        started ==
            IF Truthy(result.started_at)
            THEN [counted EXCEPT !.started_at =
                      IF @ = NONE THEN result.started_at
                      ELSE Min(@, result.started_at)]
            ELSE counted
    IN  IF Truthy(result.ended_at)
        THEN [started EXCEPT !.ended_at =
                  IF @ = NONE THEN result.ended_at ELSE Max(@, result.ended_at)]
        ELSE started

\* Report.add_result with a plain else for its last branch: whatever is neither
\* passed nor failed is counted as skipped.
add_result_PendingAsSkipped(rep, result) ==
    LET counted ==
            [rep EXCEPT !.total = @ + 1,
                        !.passed = IF is_passed(result) THEN @ + 1 ELSE @,
                        !.failed = IF ~is_passed(result) /\ is_failed(result)
                                   THEN @ + 1 ELSE @,
                        !.skipped = IF ~is_passed(result) /\ ~is_failed(result)
                                    THEN @ + 1 ELSE @]
        started ==
            IF Truthy(result.started_at)
            THEN [counted EXCEPT !.started_at =
                      IF @ = NONE THEN result.started_at
                      ELSE Min(@, result.started_at)]
            ELSE counted
    IN  IF Truthy(result.ended_at)
        THEN [started EXCEPT !.ended_at =
                  IF @ = NONE THEN result.ended_at ELSE Max(@, result.ended_at)]
        ELSE started

\* Report.add_result
add_result(rep, result) ==
    LET counted ==
            [rep EXCEPT !.total = @ + 1,
                        !.passed = IF is_passed(result) THEN @ + 1 ELSE @,
                        !.failed = IF ~is_passed(result) /\ is_failed(result)
                                   THEN @ + 1 ELSE @,
                        !.skipped = IF ~is_passed(result) /\ ~is_failed(result)
                                       /\ is_skipped(result)
                                    THEN @ + 1 ELSE @]
        started ==
            IF Truthy(result.started_at)
            THEN [counted EXCEPT !.started_at =
                      IF @ = NONE THEN result.started_at
                      ELSE Min(@, result.started_at)]
            ELSE counted
    IN  IF Truthy(result.ended_at)
        THEN [started EXCEPT !.ended_at =
                  IF @ = NONE THEN result.ended_at ELSE Max(@, result.ended_at)]
        ELSE started

\* Report.elapsed
elapsed(rep) ==
    IF rep.ended_at = NONE \/ rep.started_at = NONE THEN 0
    ELSE rep.ended_at - rep.started_at

(***************************************************************************)
(* Events.                                                                 *)
(***************************************************************************)
\* An event fired by the runner: the scenario (by its position in the run) and
\* the step (by its position in the scenario, 0 for a scenario event) whose
\* result it carries, and whether dispatcher.fire has returned for it.
Event(type, step) ==
    [scenario |-> idx, type |-> type, step |-> step, handled |-> FALSE]

(***************************************************************************)
(* The scenarios a run may be given: a skip flag and a number of steps.    *)
(* A step is named by its position; what its body does is decided when it  *)
(* is called.                                                              *)
(***************************************************************************)
Scenarios == [skipped : BOOLEAN, steps : 0..MaxSteps]

NoScenario == [skipped |-> FALSE, steps |-> 0]

(***************************************************************************)
(* The runner.                                                             *)
(***************************************************************************)
At(label) == pc = label /\ ~firing

\* Mutant of Fire: the fire is not awaited.
Fire_NotAwaited(event) ==
    /\ events' = Append(events, event)
    /\ firing' = firing

\* await self._dispatcher.fire(event): the event is handed to the dispatcher
\* and the caller waits for fire to return or raise.
Fire(event) ==
    /\ events' = Append(events, event)
    /\ firing' = TRUE

\* Mutant of scenario_is_skipped: the skip flag is not looked at.
scenario_is_skipped_Never(scn) == FALSE

\* scenario.is_skipped()
scenario_is_skipped(scn) == scn.skipped

\* Mutants of ShouldReraise: every exception is re-raised; none is.
ShouldReraise_Always(exc_type) == TRUE
ShouldReraise_Never(exc_type) == FALSE

\* Mutant of ShouldReraise: of the interrupts only KeyboardInterrupt is re-raised.
ShouldReraise_OnlyKeyboard(exc_type) == exc_type = "KeyboardInterrupt"

\* run_step re-raises the exception it has recorded.
ShouldReraise(exc_type) == exc_type \in interrupt_exceptions

\* Mutant of ShouldBreak: the loop goes on after a failed step.
ShouldBreak_Never(result) == FALSE

\* run_scenario stops the loop over the steps after this step result.
ShouldBreak(result) == is_failed(result)

\* Mutant of ShouldPass: the scenario is marked passed whatever its status.
ShouldPass_Always(result) == TRUE

\* Mutant of ShouldPass: the test is made on the end time.
ShouldPass_IfEnded(result) == result.ended_at # NONE

\* run_scenario marks the scenario passed after the loop.
ShouldPass(result) == ~is_failed(result)

\* Runner.run: report = Report()
run ==
    /\ At("run")
    /\ report' = Report
    /\ pc' = "run_loop"
    /\ UNCHANGED outside_runner
    /\ UNCHANGED <<firing, n_scenarios, idx, scenario, step_idx, scenario_result,
                   step_result, now, events, invoked, exc, returned, cleanup>>

\* Runner.run: for scenario in scenarios -- the next scenario of the list.
run_next ==
    /\ At("run_loop")
    /\ idx < n_scenarios
    /\ \E scn \in Scenarios : scenario' = scn
    /\ idx' = idx + 1
    /\ invoked' = <<>>
    /\ step_idx' = 0
    /\ scenario_result' = ScenarioResult
    /\ step_result' = NoStepResult
    /\ pc' = "run_scenario"
    /\ UNCHANGED outside_runner
    /\ UNCHANGED <<firing, n_scenarios, report, now, events, exc, returned, cleanup>>

\* Runner.run: the list is exhausted, return report.
run_return ==
    /\ At("run_loop")
    /\ idx = n_scenarios
    /\ returned' = report
    /\ pc' = "run_returned"
    /\ UNCHANGED outside_runner
    /\ UNCHANGED <<firing, n_scenarios, idx, scenario, step_idx, scenario_result,
                   step_result, report, now, events, invoked, exc, cleanup>>

\* run_scenario on a skipped scenario: mark_skipped, fire ScenarioSkipEvent, return.
run_scenario_skip ==
    /\ At("run_scenario")
    /\ scenario_is_skipped(scenario)
    /\ scenario_result' = [ScenarioResult EXCEPT !.scope_set = TRUE,
                                                 !.status = "SKIPPED"]
    /\ Fire(Event("ScenarioSkipEvent", 0))
    /\ pc' = "scenario_return"
    /\ UNCHANGED outside_runner
    /\ UNCHANGED <<n_scenarios, idx, scenario, step_idx, step_result, report, now,
                   invoked, exc, returned, cleanup>>

\* run_scenario otherwise: fire ScenarioRunEvent.
run_scenario_run ==
    /\ At("run_scenario")
    /\ ~scenario_is_skipped(scenario)
    /\ scenario_result' = [ScenarioResult EXCEPT !.scope_set = TRUE]
    /\ Fire(Event("ScenarioRunEvent", 0))
    /\ pc' = "scenario_started"
    /\ UNCHANGED outside_runner
    /\ UNCHANGED <<n_scenarios, idx, scenario, step_idx, step_result, report, now,
                   invoked, exc, returned, cleanup>>

\* run_scenario: scenario_result.set_started_at(time())
run_scenario_started ==
    /\ At("scenario_started")
    /\ scenario_result' = [scenario_result EXCEPT !.started_at = now]
    /\ now' = now + 1
    /\ pc' = "steps"
    /\ UNCHANGED outside_runner
    /\ UNCHANGED <<firing, n_scenarios, idx, scenario, step_idx, step_result, report,
                   events, invoked, exc, returned, cleanup>>

\* run_scenario: for step in scenario.steps -- call run_step, which makes the
\* StepResult and fires StepRunEvent.
run_step ==
    /\ At("steps")
    /\ step_idx < scenario.steps
    /\ step_result' = StepResult(step_idx + 1)
    /\ Fire(Event("StepRunEvent", step_idx + 1))
    /\ pc' = "step_started"
    /\ UNCHANGED outside_runner
    /\ UNCHANGED <<n_scenarios, idx, scenario, step_idx, scenario_result, report, now,
                   invoked, exc, returned, cleanup>>

\* run_scenario: the loop over the steps ends with no step left.
run_scenario_steps_done ==
    /\ At("steps")
    /\ step_idx = scenario.steps
    /\ pc' = "after_steps"
    /\ UNCHANGED outside_runner
    /\ UNCHANGED <<firing, n_scenarios, idx, scenario, step_idx, scenario_result,
                   step_result, report, now, events, invoked, exc, returned, cleanup>>

\* run_step: set_started_at(time()), then the step body is called (awaited when
\* step.is_coro(), called plainly otherwise: the runner waits for it either way).
run_step_call ==
    /\ At("step_started")
    /\ step_result' = [step_result EXCEPT !.started_at = now]
    /\ now' = now + 1
    /\ invoked' = Append(invoked, step_result.step)
    /\ pc' = "step_body"
    /\ UNCHANGED outside_runner
    /\ UNCHANGED <<firing, n_scenarios, idx, scenario, step_idx, scenario_result, report,
                   events, exc, returned, cleanup>>

\* run_step, else branch: the body returned.
run_step_passed ==
    /\ At("step_body")
    /\ step_result' = [step_result EXCEPT !.ended_at = now, !.status = "PASSED"]
    /\ now' = now + 1
    /\ Fire(Event("StepPassEvent", step_result.step))
    /\ pc' = "step_return"
    /\ UNCHANGED outside_runner
    /\ UNCHANGED <<n_scenarios, idx, scenario, step_idx, scenario_result, report,
                   invoked, exc, returned, cleanup>>

\* run_step, bare except branch: the body raised.
run_step_failed ==
    /\ At("step_body")
    /\ \E exc_type \in StepExceptions :
          step_result' = [step_result EXCEPT !.ended_at = now, !.exc_info = exc_type,
                                             !.status = "FAILED"]
    /\ now' = now + 1
    /\ Fire(Event("StepFailEvent", step_result.step))
    /\ pc' = "step_failed"
    /\ UNCHANGED outside_runner
    /\ UNCHANGED <<n_scenarios, idx, scenario, step_idx, scenario_result, report,
                   invoked, exc, returned, cleanup>>

\* run_step, after StepFailEvent was handled: re-raise an interrupt, else
\* fall through to return step_result.
run_step_reraise ==
    /\ At("step_failed")
    /\ IF ShouldReraise(step_result.exc_info)
       THEN pc' = "raised" /\ exc' = step_result.exc_info
       ELSE pc' = "step_return" /\ exc' = exc
    /\ UNCHANGED outside_runner
    /\ UNCHANGED <<firing, n_scenarios, idx, scenario, step_idx, scenario_result,
                   step_result, report, now, events, invoked, returned, cleanup>>

\* run_scenario: add_step_result(step_result); on a failed step set_ended_at,
\* mark_failed, fire ScenarioFailEvent and break.
run_scenario_step_returned ==
    /\ At("step_return")
    /\ LET added == [scenario_result EXCEPT
                         !.step_results = Append(@, step_result)]
       IN  IF ShouldBreak(step_result)
           THEN /\ scenario_result' = [added EXCEPT !.ended_at = now,
                                                    !.status = "FAILED"]
                /\ now' = now + 1
                /\ Fire(Event("ScenarioFailEvent", 0))
                /\ pc' = "after_steps"
                /\ step_idx' = step_idx
           ELSE /\ scenario_result' = added
                /\ step_idx' = step_idx + 1
                /\ pc' = "steps"
                /\ UNCHANGED <<now, events, firing>>
    /\ UNCHANGED outside_runner
    /\ UNCHANGED <<n_scenarios, idx, scenario, step_result, report, invoked, exc,
                   returned, cleanup>>

\* run_scenario: if not scenario_result.is_failed(): set_ended_at, mark_passed,
\* fire ScenarioPassEvent.
run_scenario_after_steps ==
    /\ At("after_steps")
    /\ IF ShouldPass(scenario_result)
       THEN /\ scenario_result' = [scenario_result EXCEPT !.ended_at = now,
                                                          !.status = "PASSED"]
            /\ now' = now + 1
            /\ Fire(Event("ScenarioPassEvent", 0))
       ELSE UNCHANGED <<scenario_result, now, events, firing>>
    /\ pc' = "scenario_return"
    /\ UNCHANGED outside_runner
    /\ UNCHANGED <<n_scenarios, idx, scenario, step_idx, step_result, report, invoked,
                   exc, returned, cleanup>>

\* Runner.run: run_scenario returned; report.add_result(scenario_result).
run_add_result ==
    /\ At("scenario_return")
    /\ report' = add_result(report, scenario_result)
    /\ pc' = "run_loop"
    /\ UNCHANGED outside_runner
    /\ UNCHANGED <<firing, n_scenarios, idx, scenario, step_idx, scenario_result,
                   step_result, now, events, invoked, exc, returned, cleanup>>

\* RunCommand.run: report = await runner.run(...); fire CleanupEvent(report).
run_command_cleanup ==
    /\ At("run_returned")
    /\ cleanup' = returned
    /\ Fire([Event("CleanupEvent", 0) EXCEPT !.scenario = 0])
    /\ pc' = "done"
    /\ UNCHANGED outside_runner
    /\ UNCHANGED <<n_scenarios, idx, scenario, step_idx, scenario_result, step_result,
                   report, now, invoked, exc, returned>>

\* dispatcher.fire returns: every handler of the event has completed.
fire_return ==
    /\ firing
    /\ firing' = FALSE
    /\ events' = [events EXCEPT ![Len(events)].handled = TRUE]
    /\ UNCHANGED outside_runner
    /\ UNCHANGED <<pc, n_scenarios, idx, scenario, step_idx, scenario_result,
                   step_result, report, now, invoked, exc, returned, cleanup>>

\* dispatcher.fire raises: a handler of the event raised. Nothing between the
\* fire and the caller of RunCommand.run catches it.
fire_raise ==
    /\ firing
    /\ firing' = FALSE
    /\ pc' = "raised"
    /\ exc' = HandlerError
    /\ UNCHANGED outside_runner
    /\ UNCHANGED <<n_scenarios, idx, scenario, step_idx, scenario_result, step_result,
                   report, now, events, invoked, returned, cleanup>>

\* No call has been made on the scheduler yet.
NoCall == [name |-> "None", scenario |-> 0, raised |-> "None"]

\* A scheduler of no scenarios that nothing has been called on.
SchedulerIdle ==
    /\ s_input = <<>>
    /\ s_scenarios = <<>>
    /\ s_yielded = <<>>
    /\ s_done = FALSE
    /\ s_op = NoCall
    /\ s_ignored = {}
    /\ s_calls = 0

\* ScenarioResult(scenario) as the resolution functions see it: the fields of
\* ScenarioResult.__init__, with the scenario, the scope and the artifacts.
\* scenario 0 stands for no result at all.
NoResult ==
    [class |-> "ScenarioResult", scenario |-> 0, status |-> "PENDING",
     started_at |-> NONE, ended_at |-> NONE, step_results |-> <<>>,
     scope_set |-> FALSE, scope |-> 0, artifacts |-> <<>>, scenario_results |-> <<>>]

\* No resolution function has been called.
AggregateIdle ==
    /\ a_results = <<>>
    /\ a_main = NoResult
    /\ a_call = "None"
    /\ a_out = NoResult
    /\ a_raised = "None"

\* A ScenarioResult as constructed, no setter called on it.
ResultIdle ==
    /\ sr_result = ScenarioResult
    /\ sr_log = <<>>

\* The summary property has returned no list yet.
NoList == [items |-> <<>>, shared |-> FALSE, returned |-> FALSE, mutated |-> FALSE]

\* A Report as constructed, nothing added to it.
ReportIdle ==
    /\ rp_report = Report
    /\ rp_calls = 0
    /\ rp_counts = [PENDING |-> 0, PASSED |-> 0, FAILED |-> 0, SKIPPED |-> 0]
    /\ rp_starts = {}
    /\ rp_ends = {}
    /\ rp_lines = <<>>
    /\ rp_got = NoList

\* A run command of no plugin descriptors that has not been run.
PluginsIdle ==
    /\ p_config = <<>>
    /\ p_pc = "run"
    /\ p_pos = 0
    /\ p_validated = {}
    /\ p_plugins = <<>>
    /\ p_instances = <<>>
    /\ p_registered = <<>>
    /\ p_error = "None"
    /\ p_fired = <<>>
    /\ p_invoked = {}

\* The components that the scheduler, the dispatcher, the runner and the
\* resolution of results are checked without.
\* No scenarios view has been asked for.
ViewIdle ==
    /\ v_input = <<>>
    /\ v_keys = <<>>
    /\ v_pc = "created"
    /\ v_snapshot = <<>>
    /\ v_pos = 0
    /\ v_yielded = <<>>
    /\ v_ignored = {}
    /\ v_raised = "None"
    /\ v_calls = 0

\* DeferrerPlugin(Deferrer): nothing was deferred and no event fired.
DeferrerIdle ==
    /\ df_queue = <<>>
    /\ df_pc = "idle"
    /\ df_event = "None"
    /\ df_active = {}
    /\ df_at_fire = <<>>
    /\ df_ran = <<>>
    /\ df_runs = <<>>
    /\ df_stale = {}
    /\ df_raised = 0
    /\ df_n = 0
    /\ df_fires = 0

\* SystemUpgradePlugin(SystemUpgrade): no thread, no latest version.
UpgradeIdle ==
    /\ su_pc = "init"
    /\ su_thread = "None"
    /\ su_fetch = "not_started"
    /\ su_response = [kind |-> "None", version |-> <<>>]
    /\ su_latest = <<>>
    /\ su_cur = <<>>
    /\ su_lines = <<>>
    /\ su_seen = <<>>
    /\ su_fetch_at_read = "None"
    /\ su_raised = "None"

BundledIdle == ViewIdle /\ DeferrerIdle /\ UpgradeIdle

OthersIdle == ResultIdle /\ ReportIdle /\ PluginsIdle /\ BundledIdle

DispatcherIdle ==
    /\ registry = <<>>
    /\ d_state = "idle"
    /\ d_event = "None"
    /\ d_pos = 0
    /\ d_active = {}
    /\ d_log = <<>>

Init ==
    /\ pc = "run"
    /\ firing = FALSE
    /\ n_scenarios \in 0..MaxScenarios
    /\ idx = 0
    /\ scenario = NoScenario
    /\ step_idx = 0
    /\ scenario_result = ScenarioResult
    /\ step_result = NoStepResult
    /\ report = NoReport
    /\ now = 1
    /\ events = <<>>
    /\ invoked = <<>>
    /\ exc = "None"
    /\ returned = NoReport
    /\ cleanup = NoReport
    /\ DispatcherIdle
    /\ SchedulerIdle
    /\ AggregateIdle
    /\ OthersIdle

Next ==
    \/ run
    \/ run_next
    \/ run_return
    \/ run_scenario_skip
    \/ run_scenario_run
    \/ run_scenario_started
    \/ run_step
    \/ run_scenario_steps_done
    \/ run_step_call
    \/ run_step_passed
    \/ run_step_failed
    \/ run_step_reraise
    \/ run_scenario_step_returned
    \/ run_scenario_after_steps
    \/ run_add_result
    \/ run_command_cleanup
    \/ fire_return
    \/ fire_raise

Spec == Init /\ [][Next]_vars

(***************************************************************************)
(* The dispatcher: listen appends a handler to the registry of an event    *)
(* type; fire goes through the handlers registered for the type of the     *)
(* event, in registration order, and waits for each before the next.       *)
(* A handler is named by its position in the registry.                     *)
(***************************************************************************)
\* The event classes handlers are registered for here: two concrete scenario
\* events and the base class they share.
EventTypes == {"ScenarioPassEvent", "ScenarioFailEvent", "_ScenarioEvent"}

\* The event classes that are fired.
FiredTypes == {"ScenarioPassEvent", "ScenarioFailEvent"}

\* class ScenarioPassEvent(_ScenarioEvent), class ScenarioFailEvent(_ScenarioEvent)
Parent(type) == IF type \in FiredTypes THEN "_ScenarioEvent" ELSE "Event"

\* Mutant of Registered: a handler of a base class gets the event too.
Registered_BySubclass(listened_type, fired_type) ==
    listened_type = fired_type \/ listened_type = Parent(fired_type)

\* fire selects the handlers registered for the exact type of the event.
Registered(listened_type, fired_type) == listened_type = fired_type

\* fire calls the handlers in registration order: the k-th registry entry it
\* goes through.
HandlerAt(k) == k

\* Mutant of Awaited: fire goes on without waiting for the handler.
Awaited_NotAwaited == TRUE

\* fire waits for the handler it called before it goes on.
Awaited == d_active = {}

\* Mutant of AfterRaise: fire swallows the exception and goes on.
AfterRaise_Swallowed == "firing"

\* A handler raised: fire ends, raising.
AfterRaise == "raised"

Log(handler, what) == [handler |-> handler, what |-> what]

\* dispatcher.listen(event_type, handler)
listen ==
    /\ d_state # "firing"
    /\ Len(registry) < MaxHandlers
    /\ \E type \in EventTypes : registry' = Append(registry, type)
    /\ UNCHANGED <<d_state, d_event, d_pos, d_active, d_log>>
    /\ UNCHANGED outside_dispatcher

\* dispatcher.fire(event) is called.
fire ==
    /\ d_state # "firing"
    /\ \E type \in FiredTypes : d_event' = type
    /\ d_state' = "firing"
    /\ d_pos' = 0
    /\ d_active' = {}
    /\ d_log' = <<>>
    /\ UNCHANGED registry
    /\ UNCHANGED outside_dispatcher

\* fire: the next registry entry is a handler of the event: call it.
fire_call ==
    /\ d_state = "firing"
    /\ d_pos < Len(registry)
    /\ Awaited
    /\ Registered(registry[HandlerAt(d_pos + 1)], d_event)
    /\ d_active' = d_active \cup {HandlerAt(d_pos + 1)}
    /\ d_log' = Append(d_log, Log(HandlerAt(d_pos + 1), "start"))
    /\ d_pos' = d_pos + 1
    /\ UNCHANGED <<registry, d_state, d_event>>
    /\ UNCHANGED outside_dispatcher

\* fire: the next registry entry is registered for another type: pass over it.
fire_pass_over ==
    /\ d_state = "firing"
    /\ d_pos < Len(registry)
    /\ Awaited
    /\ ~Registered(registry[HandlerAt(d_pos + 1)], d_event)
    /\ d_pos' = d_pos + 1
    /\ UNCHANGED <<registry, d_state, d_event, d_active, d_log>>
    /\ UNCHANGED outside_dispatcher

\* A called handler (plain or awaited) completes.
handler_return ==
    /\ d_state = "firing"
    /\ \E h \in d_active :
          /\ d_active' = d_active \ {h}
          /\ d_log' = Append(d_log, Log(h, "end"))
    /\ UNCHANGED <<registry, d_state, d_event, d_pos>>
    /\ UNCHANGED outside_dispatcher

\* A called handler raises.
handler_raise ==
    /\ d_state = "firing"
    /\ \E h \in d_active :
          /\ d_active' = d_active \ {h}
          /\ d_log' = Append(d_log, Log(h, "raise"))
    /\ d_state' = AfterRaise
    /\ UNCHANGED <<registry, d_event, d_pos>>
    /\ UNCHANGED outside_dispatcher

\* fire returns: no registry entry is left and the last handler has completed.
fire_done ==
    /\ d_state = "firing"
    /\ d_pos = Len(registry)
    /\ Awaited
    /\ d_state' = "returned"
    /\ UNCHANGED <<registry, d_event, d_pos, d_active, d_log>>
    /\ UNCHANGED outside_dispatcher

RunnerIdle ==
    /\ pc = "run"
    /\ firing = FALSE
    /\ n_scenarios = 0
    /\ idx = 0
    /\ scenario = NoScenario
    /\ step_idx = 0
    /\ scenario_result = ScenarioResult
    /\ step_result = NoStepResult
    /\ report = NoReport
    /\ now = 1
    /\ events = <<>>
    /\ invoked = <<>>
    /\ exc = "None"
    /\ returned = NoReport
    /\ cleanup = NoReport

InitDispatcher ==
    RunnerIdle /\ DispatcherIdle /\ SchedulerIdle /\ AggregateIdle /\ OthersIdle

NextDispatcher ==
    \/ listen
    \/ fire
    \/ fire_call
    \/ fire_pass_over
    \/ handler_return
    \/ handler_raise
    \/ fire_done

SpecDispatcher == InitDispatcher /\ [][NextDispatcher]_vars

(***************************************************************************)
(* The scenario scheduler: an ordered dictionary of the scenarios still to *)
(* run, keyed by unique_id.  A scenario is named by its unique_id.  The    *)
(* base class keeps the dictionary, its scenarios view and ignore; its     *)
(* schedule and iteration step are those of the default scheduler: move    *)
(* to the end, and take from the front.                                    *)
(***************************************************************************)
\* The unique_ids there are.
Ids == 1..MaxIds

\* The lists of scenarios a scheduler may be built from; a scenario may occur
\* in the list more than once.
ListsOfIds == UNION {[1..n -> Ids] : n \in 0..MaxIds}

Range(q) == {q[i] : i \in 1..Len(q)}

\* del d[key] on the keys of an ordered dictionary: the others keep their order.
Remove(q, key) == SelectSeq(q, LAMBDA k : k # key)

\* The keys of an OrderedDict built from the scenarios taken last to first.
RECURSIVE OrderedDict_Reversed(_)
OrderedDict_Reversed(items) ==
    IF items = <<>> THEN <<>>
    ELSE LET rest == OrderedDict_Reversed(Tail(items))
         IN  IF Head(items) \in Range(rest) THEN rest ELSE Append(rest, Head(items))

\* The keys of OrderedDict((scn.unique_id, scn) for scn in scenarios): a key
\* stays where it was first inserted, a later item of the same key replaces
\* the value only.
RECURSIVE OrderedDict(_)
OrderedDict(items) ==
    IF items = <<>> THEN <<>>
    ELSE LET front == OrderedDict(SubSeq(items, 1, Len(items) - 1))
             last == items[Len(items)]
         IN  IF last \in Range(front) THEN front ELSE Append(front, last)

\* A pop that does nothing.
pop_Nothing(q, key) == [keys |-> q, raised |-> "None"]

\* self._scenarios.pop(key), without the default.
pop_NoDefault(q, key) ==
    [keys |-> Remove(q, key),
     raised |-> IF key \in Range(q) THEN "None" ELSE "KeyError"]

\* self._scenarios.pop(key, None): the key is removed when it is there, and
\* nothing is raised when it is not.
pop(q, key) == [keys |-> Remove(q, key), raised |-> "None"]

\* The scenarios property: a snapshot of the keys, of which those still in
\* the dictionary are produced.
scenarios(q) == SelectSeq(q, LAMBDA key : key \in Range(q))

\* A schedule that appends without looking for the entry already there.
move_to_end_Append(q, key) == Append(q, key)

\* schedule puts the scenario at the end of the pending scenarios: an entry
\* already there is moved, not doubled.
move_to_end(q, key) == Append(Remove(q, key), key)

\* A scheduler that takes every scenario for one of its own.
known_Everything == Ids

\* The scenarios the scheduler was built from.
known == Range(s_input)

\* The pending scenarios as an iteration over a snapshot taken when the
\* scheduler was built sees them.
pending_Snapshot ==
    SubSeq(OrderedDict(s_input), Len(s_yielded) + 1, Len(OrderedDict(s_input)))

\* The pending scenarios an iteration step looks at: the dictionary as it is now.
pending == s_scenarios

\* schedule(scenario), called by a handler while the run loop iterates: unknown
\* scenarios are refused, a known one is put at the end of the pending
\* scenarios.
schedule ==
    /\ ~s_done
    /\ s_calls < MaxCalls
    /\ \E id \in Ids :
        /\ s_calls' = s_calls + 1
        /\ IF id \notin known
           THEN /\ s_op' = [name |-> "schedule", scenario |-> id, raised |-> "Error"]
                /\ UNCHANGED <<s_scenarios, s_ignored>>
           ELSE /\ s_op' = [name |-> "schedule", scenario |-> id, raised |-> "None"]
                /\ s_scenarios' = move_to_end(s_scenarios, id)
                /\ s_ignored' = s_ignored \ {id}
    /\ UNCHANGED <<s_input, s_yielded, s_done>>
    /\ UNCHANGED outside_scheduler

\* ignore(scenario), called by a handler while the run loop iterates:
\* self._scenarios.pop(scenario.unique_id, None)
ignore ==
    /\ ~s_done
    /\ s_calls < MaxCalls
    /\ \E id \in Ids :
        LET popped == pop(s_scenarios, id)
        IN  /\ s_calls' = s_calls + 1
            /\ s_scenarios' = popped.keys
            /\ s_op' = [name |-> "ignore", scenario |-> id, raised |-> popped.raised]
            /\ s_ignored' = s_ignored \cup {id}
    /\ UNCHANGED <<s_input, s_yielded, s_done>>
    /\ UNCHANGED outside_scheduler

\* One step of the iteration (__anext__): the first pending scenario is taken
\* out of the dictionary and yielded; with none pending the iteration ends
\* (StopAsyncIteration) and the run loop with it.
anext ==
    /\ ~s_done
    /\ IF pending = <<>>
       THEN /\ s_done' = TRUE
            /\ s_op' = [name |-> "__anext__", scenario |-> 0,
                        raised |-> "StopAsyncIteration"]
            /\ UNCHANGED <<s_scenarios, s_yielded>>
       ELSE /\ s_yielded' = Append(s_yielded, Head(pending))
            /\ s_scenarios' = Remove(s_scenarios, Head(pending))
            /\ s_op' = [name |-> "__anext__", scenario |-> Head(pending),
                        raised |-> "None"]
            /\ UNCHANGED s_done
    /\ UNCHANGED <<s_input, s_ignored, s_calls>>
    /\ UNCHANGED outside_scheduler

\* ScenarioScheduler(scenarios)
InitScheduler ==
    /\ RunnerIdle
    /\ DispatcherIdle
    /\ AggregateIdle
    /\ OthersIdle
    /\ s_input \in ListsOfIds
    /\ s_scenarios = OrderedDict(s_input)
    /\ s_yielded = <<>>
    /\ s_done = FALSE
    /\ s_op = NoCall
    /\ s_ignored = {}
    /\ s_calls = 0

NextScheduler ==
    \/ schedule
    \/ ignore
    \/ anext

SpecScheduler == InitScheduler /\ [][NextScheduler]_vars

\* The run loop iterating a scheduler no plugin calls: async for keeps asking
\* for the next scenario until the iteration ends.
NextIteration ==
    \/ anext

SpecIteration == InitScheduler /\ [][NextIteration]_vars /\ WF_vars(anext)

(***************************************************************************)
(* The scenarios property of a ScenarioScheduler: a generator over the     *)
(* scenarios, stepped by its consumer while ignore is called in between.   *)
(***************************************************************************)
\* A generator that takes every key of its list for one still there.
still_there_Always(id, q) == TRUE

\* if scenario_id in self._scenarios
still_there(id, q) == id \in Range(q)

\* list(self._scenarios.keys()): the keys as they are when the generator
\* starts to run.
keys_list(q) == q

\* self._scenarios[scenario_id]: what the lookup raises.
lookup(q, id) == IF id \in Range(q) THEN "None" ELSE "KeyError"

\* The positions of the list after pos whose key the generator does not pass over.
Candidates(list, pos, q) == {j \in (pos + 1)..Len(list) : still_there(list[j], q)}

\* The list the generator runs over at this step: taken at its first step.
ListNow == IF v_pc = "created" THEN keys_list(v_keys) ELSE v_snapshot

\* next() on the generator: it runs to its next yield, to its end
\* (StopIteration), or to an exception of the lookup, which ends it too.
view_next ==
    /\ v_pc # "exhausted"
    /\ v_snapshot' = ListNow
    /\ LET found == Candidates(ListNow, v_pos, v_keys)
           j == CHOOSE j \in found : \A k \in found : j <= k
       IN  IF found = {}
           THEN /\ v_pc' = "exhausted"
                /\ v_pos' = Len(ListNow)
                /\ v_raised' = "StopIteration"
                /\ UNCHANGED v_yielded
           ELSE IF lookup(v_keys, ListNow[j]) # "None"
           THEN /\ v_pc' = "exhausted"
                /\ v_pos' = j
                /\ v_raised' = lookup(v_keys, ListNow[j])
                /\ UNCHANGED v_yielded
           ELSE /\ v_pc' = "iterating"
                /\ v_pos' = j
                /\ v_raised' = "None"
                /\ v_yielded' = Append(v_yielded, [id |-> ListNow[j], ignored |-> v_ignored])
    /\ UNCHANGED <<v_input, v_keys, v_ignored, v_calls>>
    /\ UNCHANGED outside_view

\* ignore(scenario), called between two steps of the generator:
\* self._scenarios.pop(scenario.unique_id, None)
view_ignore ==
    /\ v_pc # "exhausted"
    /\ v_calls < MaxCalls
    /\ \E id \in Ids :
          /\ v_keys' = pop(v_keys, id).keys
          /\ v_ignored' = v_ignored \cup {id}
    /\ v_calls' = v_calls + 1
    /\ UNCHANGED <<v_input, v_pc, v_snapshot, v_pos, v_yielded, v_raised>>
    /\ UNCHANGED outside_view

\* ScenarioScheduler(scenarios), and a generator made by its scenarios property.
InitView ==
    /\ RunnerIdle
    /\ DispatcherIdle
    /\ SchedulerIdle
    /\ AggregateIdle
    /\ ResultIdle
    /\ ReportIdle
    /\ PluginsIdle
    /\ DeferrerIdle
    /\ UpgradeIdle
    /\ v_input \in ListsOfIds
    /\ v_keys = OrderedDict(v_input)
    /\ v_pc = "created"
    /\ v_snapshot = <<>>
    /\ v_pos = 0
    /\ v_yielded = <<>>
    /\ v_ignored = {}
    /\ v_raised = "None"
    /\ v_calls = 0

NextView ==
    \/ view_next
    \/ view_ignore

SpecView == InitView /\ [][NextView]_vars

(***************************************************************************)
(* The resolution of the results of the executions of one scenario: the    *)
(* reporter's _find_resolution, AggregatedResult.from_existing and the     *)
(* scheduler's aggregate_results.                                          *)
(***************************************************************************)
Statuses == {"PENDING", "PASSED", "FAILED", "SKIPPED"}

\* The ScenarioResult of the n-th execution of the scenario: one that was run
\* (passed or failed) has its timestamps, a step result, a scope and an
\* artifact of its own; a skipped or pending one has nothing set.
Execution(n, status) ==
    LET ran == status \in {"PASSED", "FAILED"}
    IN  [class |-> "ScenarioResult", scenario |-> 1, status |-> status,
         started_at |-> IF ran THEN 2 * n + 1 ELSE NONE,
         ended_at |-> IF ran THEN 2 * n + 2 ELSE NONE,
         step_results |-> IF ran THEN <<n>> ELSE <<>>,
         scope_set |-> ran,
         scope |-> IF ran THEN n ELSE 0,
         artifacts |-> IF ran THEN <<n>> ELSE <<>>,
         scenario_results |-> <<>>]

\* The lists of results of up to MaxResults executions.
ResultLists ==
    UNION {{[i \in 1..n |-> Execution(i, st[i])] : st \in [1..n -> Statuses]} :
              n \in 0..MaxResults}

\* ScenarioResult.scope: {} (here 0) while no scope was set.
scope(result) == IF result.scope_set THEN result.scope ELSE 0

\* What a call gives: the value returned, or the exception raised.
Returned(value) == [value |-> value, raised |-> "None"]
Raised(exception) == [value |-> NoResult, raised |-> exception]

\* _find_resolution comparing with >= instead of >.
find_resolution_TiePasses(scenario_results) ==
    LET passed == SelectSeq(scenario_results, LAMBDA r : is_passed(r))
        failed == SelectSeq(scenario_results, LAMBDA r : ~is_passed(r))
    IN  IF Len(passed) >= Len(failed)
        THEN IF passed = <<>> THEN Raised("IndexError")
             ELSE Returned(passed[Len(passed)])
        ELSE Returned(failed[Len(failed)])

\* RichReporter._find_resolution: the results that passed go to one list, all
\* the others to the other; passed[-1] if len(passed) > len(failed) else
\* failed[-1], which raises IndexError on an empty failed list.
find_resolution(scenario_results) ==
    LET passed == SelectSeq(scenario_results, LAMBDA r : is_passed(r))
        failed == SelectSeq(scenario_results, LAMBDA r : ~is_passed(r))
    IN  IF Len(passed) > Len(failed)
        THEN Returned(passed[Len(passed)])
        ELSE IF failed = <<>> THEN Raised("IndexError")
             ELSE Returned(failed[Len(failed)])

\* The copy of the main result without the branch for a skipped one.
Aggregated_NoSkipped(main_scenario_result, scenario_results) ==
    [class |-> "AggregatedResult",
     scenario |-> main_scenario_result.scenario,
     status |-> IF is_passed(main_scenario_result) THEN "PASSED"
                ELSE IF is_failed(main_scenario_result) THEN "FAILED"
                ELSE "PENDING",
     started_at |-> IF main_scenario_result.started_at # NONE
                    THEN main_scenario_result.started_at ELSE NONE,
     ended_at |-> IF main_scenario_result.ended_at # NONE
                  THEN main_scenario_result.ended_at ELSE NONE,
     step_results |-> main_scenario_result.step_results,
     scope_set |-> TRUE,
     scope |-> scope(main_scenario_result),
     artifacts |-> main_scenario_result.artifacts,
     scenario_results |-> scenario_results]

\* The AggregatedResult from_existing builds before it looks at the list: the
\* status of the main result when it is passed, failed or skipped, its
\* timestamps when they are set, its scope, step results and artifacts.
Aggregated(main_scenario_result, scenario_results) ==
    [class |-> "AggregatedResult",
     scenario |-> main_scenario_result.scenario,
     status |-> IF is_passed(main_scenario_result) THEN "PASSED"
                ELSE IF is_failed(main_scenario_result) THEN "FAILED"
                ELSE IF is_skipped(main_scenario_result) THEN "SKIPPED"
                ELSE "PENDING",
     started_at |-> IF main_scenario_result.started_at # NONE
                    THEN main_scenario_result.started_at ELSE NONE,
     ended_at |-> IF main_scenario_result.ended_at # NONE
                  THEN main_scenario_result.ended_at ELSE NONE,
     step_results |-> main_scenario_result.step_results,
     scope_set |-> TRUE,
     scope |-> scope(main_scenario_result),
     artifacts |-> main_scenario_result.artifacts,
     scenario_results |-> scenario_results]

\* from_existing without its assert.
from_existing_NoAssert(main_scenario_result, scenario_results) ==
    Returned(Aggregated(main_scenario_result, scenario_results))

\* AggregatedResult.from_existing: assert len(scenario_results) > 0, then the
\* results are added and the aggregate is returned.
from_existing(main_scenario_result, scenario_results) ==
    IF Len(scenario_results) > 0
    THEN Returned(Aggregated(main_scenario_result, scenario_results))
    ELSE Raised("AssertionError")

\* The aggregate_results of the abstract base class: pass.
aggregate_results_Abstract(scenario_results) == Returned(NoResult)

\* aggregate_results of the default scheduler: no result is an error, the
\* result of a single execution is returned as it is, the results of several
\* are wrapped in an AggregatedResult made from their resolution.
aggregate_results(scenario_results) ==
    IF Len(scenario_results) = 0 THEN Raised("AssertionError")
    ELSE IF Len(scenario_results) = 1 THEN Returned(scenario_results[1])
    ELSE LET resolution == find_resolution(scenario_results)
         IN  IF resolution.raised # "None" THEN resolution
             ELSE from_existing(resolution.value, scenario_results)

\* The main results from_existing is called with: one of the results of the
\* list, or a result that is not in it.
MainResults == Range(a_results) \cup {Execution(0, status) : status \in Statuses}

\* self._find_resolution(self._buffer)
call_find_resolution ==
    /\ a_call = "None"
    /\ a_call' = "_find_resolution"
    /\ a_out' = find_resolution(a_results).value
    /\ a_raised' = find_resolution(a_results).raised
    /\ UNCHANGED <<a_results, a_main>>
    /\ UNCHANGED outside_aggregate

\* AggregatedResult.from_existing(main_scenario_result, scenario_results)
call_from_existing ==
    /\ a_call = "None"
    /\ a_call' = "from_existing"
    /\ \E main \in MainResults :
        /\ a_main' = main
        /\ a_out' = from_existing(main, a_results).value
        /\ a_raised' = from_existing(main, a_results).raised
    /\ UNCHANGED a_results
    /\ UNCHANGED outside_aggregate

\* scheduler.aggregate_results(scenario_results)
call_aggregate_results ==
    /\ a_call = "None"
    /\ a_call' = "aggregate_results"
    /\ a_out' = aggregate_results(a_results).value
    /\ a_raised' = aggregate_results(a_results).raised
    /\ UNCHANGED <<a_results, a_main>>
    /\ UNCHANGED outside_aggregate

\* The results of the executions of one scenario, nothing called on them yet.
InitAggregate ==
    /\ RunnerIdle
    /\ DispatcherIdle
    /\ SchedulerIdle
    /\ OthersIdle
    /\ a_results \in ResultLists
    /\ a_main = NoResult
    /\ a_call = "None"
    /\ a_out = NoResult
    /\ a_raised = "None"

NextAggregate ==
    \/ call_find_resolution
    \/ call_from_existing
    \/ call_aggregate_results

SpecAggregate == InitAggregate /\ [][NextAggregate]_vars

(***************************************************************************)
(* One ScenarioResult and its setters, called in any order by whoever      *)
(* holds the result.                                                       *)
(***************************************************************************)
\* The timestamps given to the setters and carried by results.
Times == 0..MaxTime

\* ScenarioResult.mark_passed, mark_failed, mark_skipped
mark_passed(result) == [result EXCEPT !.status = "PASSED"]
mark_failed(result) == [result EXCEPT !.status = "FAILED"]
mark_skipped(result) == [result EXCEPT !.status = "SKIPPED"]

\* ScenarioResult.set_started_at, set_ended_at
set_started_at(result, started_at) == [result EXCEPT !.started_at = started_at]
set_ended_at(result, ended_at) == [result EXCEPT !.ended_at = ended_at]

\* A setter call, as the log keeps it.
Call(name, arg) == [name |-> name, arg |-> arg]

call_mark_passed ==
    /\ Len(sr_log) < MaxSetterCalls
    /\ sr_result' = mark_passed(sr_result)
    /\ sr_log' = Append(sr_log, Call("mark_passed", "PASSED"))
    /\ UNCHANGED outside_result

call_mark_failed ==
    /\ Len(sr_log) < MaxSetterCalls
    /\ sr_result' = mark_failed(sr_result)
    /\ sr_log' = Append(sr_log, Call("mark_failed", "FAILED"))
    /\ UNCHANGED outside_result

call_mark_skipped ==
    /\ Len(sr_log) < MaxSetterCalls
    /\ sr_result' = mark_skipped(sr_result)
    /\ sr_log' = Append(sr_log, Call("mark_skipped", "SKIPPED"))
    /\ UNCHANGED outside_result

call_set_started_at ==
    /\ Len(sr_log) < MaxSetterCalls
    /\ \E started_at \in Times :
        /\ sr_result' = set_started_at(sr_result, started_at)
        /\ sr_log' = Append(sr_log, Call("set_started_at", started_at))
    /\ UNCHANGED outside_result

call_set_ended_at ==
    /\ Len(sr_log) < MaxSetterCalls
    /\ \E ended_at \in Times :
        /\ sr_result' = set_ended_at(sr_result, ended_at)
        /\ sr_log' = Append(sr_log, Call("set_ended_at", ended_at))
    /\ UNCHANGED outside_result

\* ScenarioResult(scenario)
InitResult ==
    /\ RunnerIdle
    /\ DispatcherIdle
    /\ SchedulerIdle
    /\ AggregateIdle
    /\ ReportIdle
    /\ PluginsIdle
    /\ BundledIdle
    /\ sr_result = ScenarioResult
    /\ sr_log = <<>>

NextResult ==
    \/ call_mark_passed
    \/ call_mark_failed
    \/ call_mark_skipped
    \/ call_set_started_at
    \/ call_set_ended_at

SpecResult == InitResult /\ [][NextResult]_vars

(***************************************************************************)
(* One Report: results and summary lines are added to it and its summary   *)
(* is read, in any order.                                                  *)
(***************************************************************************)
\* The results given to add_result: any status, each timestamp unset or set.
ReportResults ==
    {[ScenarioResult EXCEPT !.status = status, !.started_at = started_at,
                            !.ended_at = ended_at] :
        status \in Statuses,
        started_at \in {NONE} \cup Times,
        ended_at \in {NONE} \cup Times}

\* The lines given to add_summary: each call gives a line of its own, named by
\* its number among the calls.
Lines == {Len(rp_lines) + 1}

\* Report.add_summary
add_summary(rep, line) == [rep EXCEPT !.summary = Append(@, line)]

\* The summary property handing out the list of the report itself.
summary_NoCopy(rep) ==
    [items |-> rep.summary, shared |-> TRUE, returned |-> TRUE, mutated |-> FALSE]

\* Report.summary: self._summary[:], a list of its own.
summary(rep) ==
    [items |-> rep.summary, shared |-> FALSE, returned |-> TRUE, mutated |-> FALSE]

\* report.add_result(result)
report_add_result ==
    /\ rp_calls < MaxAdds
    /\ \E result \in ReportResults :
        /\ rp_report' = add_result(rp_report, result)
        /\ rp_counts' = [rp_counts EXCEPT ![result.status] = @ + 1]
        /\ rp_starts' = IF result.started_at # NONE
                        THEN rp_starts \cup {result.started_at} ELSE rp_starts
        /\ rp_ends' = IF result.ended_at # NONE
                      THEN rp_ends \cup {result.ended_at} ELSE rp_ends
    /\ rp_calls' = rp_calls + 1
    /\ UNCHANGED <<rp_lines, rp_got>>
    /\ UNCHANGED outside_report

\* report.add_summary(line); a list that is the report's own sees the line.
report_add_summary ==
    /\ Len(rp_lines) < MaxLines
    /\ \E line \in Lines :
        /\ rp_report' = add_summary(rp_report, line)
        /\ rp_lines' = Append(rp_lines, line)
        /\ rp_got' = IF rp_got.shared THEN [rp_got EXCEPT !.items = Append(@, line)]
                     ELSE rp_got
    /\ UNCHANGED <<rp_calls, rp_counts, rp_starts, rp_ends>>
    /\ UNCHANGED outside_report

\* res = report.summary
report_summary ==
    /\ rp_got' = summary(rp_report)
    /\ rp_got' # rp_got
    /\ UNCHANGED <<rp_report, rp_calls, rp_counts, rp_starts, rp_ends, rp_lines>>
    /\ UNCHANGED outside_report

\* res.clear(): the caller empties the list it was given; the report's lines go
\* with it only when the list is the report's own.
report_summary_clear ==
    /\ rp_got.returned
    /\ rp_got.items # <<>>
    /\ rp_got' = [rp_got EXCEPT !.items = <<>>, !.mutated = TRUE]
    /\ rp_report' = IF rp_got.shared THEN [rp_report EXCEPT !.summary = <<>>]
                    ELSE rp_report
    /\ UNCHANGED <<rp_calls, rp_counts, rp_starts, rp_ends, rp_lines>>
    /\ UNCHANGED outside_report

\* Report()
InitReport ==
    /\ RunnerIdle
    /\ DispatcherIdle
    /\ SchedulerIdle
    /\ AggregateIdle
    /\ ResultIdle
    /\ PluginsIdle
    /\ BundledIdle
    /\ rp_report = Report
    /\ rp_calls = 0
    /\ rp_counts = [status \in Statuses |-> 0]
    /\ rp_starts = {}
    /\ rp_ends = {}
    /\ rp_lines = <<>>
    /\ rp_got = NoList

NextReport ==
    \/ report_add_result
    \/ report_add_summary
    \/ report_summary
    \/ report_summary_clear

SpecReport == InitReport /\ [][NextReport]_vars

(***************************************************************************)
(* The head of RunCommand.run: the plugin descriptors of the configuration *)
(* are validated, the enabled ones collected, ordered, instantiated and    *)
(* registered on the dispatcher, and ConfigLoadedEvent is fired.  A        *)
(* descriptor is named by its position in Config.Plugins; 0 names a        *)
(* descriptor that is not configured.                                      *)
(***************************************************************************)
\* A descriptor that is not among the configured ones.
NotConfigured == 0

\* The configurations of n descriptors: each is enabled or not, passes the type
\* checks made on the descriptor itself or not, and depends on any of the other
\* descriptors and of the one that is not configured.
ConfigsOf(n) ==
    {config \in [1..n -> [enabled : BOOLEAN, well_typed : BOOLEAN,
                          depends_on : SUBSET (0..n)]] :
        \A k \in 1..n : k \notin config[k].depends_on}

Configs == UNION {ConfigsOf(n) : n \in 0..MaxPlugins}

\* available_plugins = set(self._config.Plugins.values())
available_plugins(config) == 1..Len(config)

\* A validation that looks at the dependencies of enabled descriptors only.
validate_plugin_config_EnabledOnly(config, k) ==
    IF ~config[k].well_typed THEN "TypeError"
    ELSE IF /\ config[k].enabled
            /\ \E dep \in config[k].depends_on :
                  \/ dep \notin available_plugins(config)
                  \/ ~config[dep].enabled
         THEN "ValueError"
         ELSE "None"

\* A validation that passes over disabled descriptors.
validate_plugin_config_SkipsDisabled(config, k) ==
    IF ~config[k].enabled THEN "None"
    ELSE IF ~config[k].well_typed THEN "TypeError"
    ELSE IF \E dep \in config[k].depends_on :
                \/ dep \notin available_plugins(config)
                \/ ~config[dep].enabled
         THEN "ValueError"
         ELSE "None"

\* _validate_plugin_config: what it raises, or "None".  TypeError for a
\* descriptor that fails the type checks; ValueError for a dependency that is
\* not among the configured descriptors, or that is disabled while the
\* descriptor is enabled.
validate_plugin_config(config, k) ==
    IF ~config[k].well_typed THEN "TypeError"
    ELSE IF \E dep \in config[k].depends_on :
                \/ dep \notin available_plugins(config)
                \/ (config[k].enabled /\ ~config[dep].enabled)
         THEN "ValueError"
         ELSE "None"

\* The collection of the descriptors without the test of enabled.
collect_All(plugins, config, k) == Append(plugins, k)

\* if plugin_config.enabled: plugins.append(plugin_config)
collect(plugins, config, k) ==
    IF config[k].enabled THEN Append(plugins, k) ELSE plugins

\* _order_plugins: a loop that does nothing, then return plugins.
order_plugins(plugins) == plugins

\* RunCommand.run: the configuration is valid, the dispatcher is made, and
\* _register_plugins calls _get_ordered_plugins.
plugins_run ==
    /\ p_pc = "run"
    /\ p_pc' = "validate"
    /\ UNCHANGED <<p_config, p_pos, p_validated, p_plugins, p_instances, p_registered,
                   p_error, p_fired, p_invoked>>
    /\ UNCHANGED outside_plugins

\* _get_ordered_plugins: the next descriptor is validated, which may raise, and
\* collected if it is enabled.
plugins_validate ==
    /\ p_pc = "validate"
    /\ p_pos < Len(p_config)
    /\ p_validated' = p_validated \cup {p_pos + 1}
    /\ IF validate_plugin_config(p_config, p_pos + 1) # "None"
       THEN /\ p_pc' = "raised"
            /\ p_error' = validate_plugin_config(p_config, p_pos + 1)
            /\ UNCHANGED <<p_pos, p_plugins>>
       ELSE /\ p_pos' = p_pos + 1
            /\ p_plugins' = collect(p_plugins, p_config, p_pos + 1)
            /\ UNCHANGED <<p_pc, p_error>>
    /\ UNCHANGED <<p_config, p_instances, p_registered, p_fired, p_invoked>>
    /\ UNCHANGED outside_plugins

\* _get_ordered_plugins: return self._order_plugins(plugins), to the loop of
\* _register_plugins.
plugins_order ==
    /\ p_pc = "validate"
    /\ p_pos = Len(p_config)
    /\ p_plugins' = order_plugins(p_plugins)
    /\ p_pos' = 0
    /\ p_pc' = "register"
    /\ UNCHANGED <<p_config, p_validated, p_instances, p_registered, p_error, p_fired,
                   p_invoked>>
    /\ UNCHANGED outside_plugins

\* _register_plugins: plugin = plugin_config.plugin(config=plugin_config);
\* dispatcher.register(plugin)
plugins_register ==
    /\ p_pc = "register"
    /\ p_pos < Len(p_plugins)
    /\ p_instances' = [p_instances EXCEPT ![p_plugins[p_pos + 1]] = @ + 1]
    /\ p_registered' = Append(p_registered, p_plugins[p_pos + 1])
    /\ p_pos' = p_pos + 1
    /\ UNCHANGED <<p_config, p_pc, p_validated, p_plugins, p_error, p_fired, p_invoked>>
    /\ UNCHANGED outside_plugins

\* RunCommand.run: fire(ConfigLoadedEvent(...)), handled by the plugins that
\* were registered.
plugins_config_loaded ==
    /\ p_pc = "register"
    /\ p_pos = Len(p_plugins)
    /\ p_fired' = Append(p_fired, "ConfigLoadedEvent")
    /\ p_invoked' = p_invoked \cup Range(p_registered)
    /\ p_pc' = "config_loaded"
    /\ UNCHANGED <<p_config, p_pos, p_validated, p_plugins, p_instances, p_registered,
                   p_error>>
    /\ UNCHANGED outside_plugins

\* RunCommand(config, arg_parser), for any configuration of plugin descriptors.
InitPlugins ==
    /\ RunnerIdle
    /\ DispatcherIdle
    /\ SchedulerIdle
    /\ AggregateIdle
    /\ ResultIdle
    /\ ReportIdle
    /\ BundledIdle
    /\ p_config \in Configs
    /\ p_pc = "run"
    /\ p_pos = 0
    /\ p_validated = {}
    /\ p_plugins = <<>>
    /\ p_instances = [k \in 1..Len(p_config) |-> 0]
    /\ p_registered = <<>>
    /\ p_error = "None"
    /\ p_fired = <<>>
    /\ p_invoked = {}

NextPlugins ==
    \/ plugins_run
    \/ plugins_validate
    \/ plugins_order
    \/ plugins_register
    \/ plugins_config_loaded

SpecPlugins == InitPlugins /\ [][NextPlugins]_vars

(***************************************************************************)
(* The whole of RunCommand.run: the plugins are registered and             *)
(* ConfigLoadedEvent fired (the actions of the head, above), the arguments *)
(* are parsed, the scenarios discovered, StartupEvent fired, and the       *)
(* runner run (the actions of the runner), until CleanupEvent.             *)
(***************************************************************************)
\* _parse_args with the two fires the other way round.
parse_args_events_Swapped == <<"ArgParsedEvent", "ArgParseEvent">>

\* _parse_args: the event fired before parse_args() and the one fired after.
parse_args_events == <<"ArgParseEvent", "ArgParsedEvent">>

\* RunCommand.run: args = await self._parse_args(dispatcher) --
\* add_argument, remove_help_action, fire(ArgParseEvent(arg_parser)).
command_parse_args ==
    /\ p_pc = "config_loaded"
    /\ At("command")
    /\ Fire(Event(parse_args_events[1], 0))
    /\ pc' = "arg_parse"
    /\ UNCHANGED outside_runner
    /\ UNCHANGED <<n_scenarios, idx, scenario, step_idx, scenario_result, step_result,
                   report, now, invoked, exc, returned, cleanup>>

\* _parse_args: add_help_action, args = parse_args(), fire(ArgParsedEvent(args)).
command_args_parsed ==
    /\ At("arg_parse")
    /\ Fire(Event(parse_args_events[2], 0))
    /\ pc' = "arg_parsed"
    /\ UNCHANGED outside_runner
    /\ UNCHANGED <<n_scenarios, idx, scenario, step_idx, scenario_result, step_result,
                   report, now, invoked, exc, returned, cleanup>>

\* RunCommand.run: the scenarios are discovered, the scheduler is made of them,
\* fire(StartupEvent(scheduler)).
command_startup ==
    /\ At("arg_parsed")
    /\ Fire(Event("StartupEvent", 0))
    /\ pc' = "startup"
    /\ UNCHANGED outside_runner
    /\ UNCHANGED <<n_scenarios, idx, scenario, step_idx, scenario_result, step_result,
                   report, now, invoked, exc, returned, cleanup>>

\* RunCommand.run: runner = ScenarioRunner(); report = await runner.run(scheduler)
command_run ==
    /\ At("startup")
    /\ pc' = "run"
    /\ UNCHANGED outside_runner
    /\ UNCHANGED <<firing, n_scenarios, idx, scenario, step_idx, scenario_result,
                   step_result, report, now, events, invoked, exc, returned, cleanup>>

\* The configurations whose validation raises nothing: n enabled descriptors
\* that depend on nothing.
CommandConfigs ==
    {[k \in 1..n |-> [enabled |-> TRUE, well_typed |-> TRUE, depends_on |-> {}]] :
        n \in 0..MaxPlugins}

\* RunCommand(config, arg_parser), and the scenarios its discoverer will find.
InitCommand ==
    /\ pc = "command"
    /\ firing = FALSE
    /\ n_scenarios \in 0..MaxScenarios
    /\ idx = 0
    /\ scenario = NoScenario
    /\ step_idx = 0
    /\ scenario_result = ScenarioResult
    /\ step_result = NoStepResult
    /\ report = NoReport
    /\ now = 1
    /\ events = <<>>
    /\ invoked = <<>>
    /\ exc = "None"
    /\ returned = NoReport
    /\ cleanup = NoReport
    /\ DispatcherIdle
    /\ SchedulerIdle
    /\ AggregateIdle
    /\ ResultIdle
    /\ ReportIdle
    /\ BundledIdle
    /\ p_config \in CommandConfigs
    /\ p_pc = "run"
    /\ p_pos = 0
    /\ p_validated = {}
    /\ p_plugins = <<>>
    /\ p_instances = [k \in 1..Len(p_config) |-> 0]
    /\ p_registered = <<>>
    /\ p_error = "None"
    /\ p_fired = <<>>
    /\ p_invoked = {}

NextCommand ==
    \/ plugins_run
    \/ plugins_validate
    \/ plugins_order
    \/ plugins_register
    \/ plugins_config_loaded
    \/ command_parse_args
    \/ command_args_parsed
    \/ command_startup
    \/ command_run
    \/ run
    \/ run_next
    \/ run_return
    \/ run_scenario_skip
    \/ run_scenario_run
    \/ run_scenario_started
    \/ run_step
    \/ run_scenario_steps_done
    \/ run_step_call
    \/ run_step_passed
    \/ run_step_failed
    \/ run_step_reraise
    \/ run_scenario_step_returned
    \/ run_scenario_after_steps
    \/ run_add_result
    \/ run_command_cleanup
    \/ fire_return
    \/ fire_raise

SpecCommand == InitCommand /\ [][NextCommand]_vars

(***************************************************************************)
(* DeferrerPlugin: defer(fn, *args, **kwargs) puts a callback on the       *)
(* queue; ScenarioRunEvent clears the queue; ScenarioPassedEvent and       *)
(* ScenarioFailedEvent drain it.  A callback is named by the number of the *)
(* defer call that queued it.                                              *)
(***************************************************************************)
\* The arguments a callback may be deferred with.
DeferArgs == 1..MaxArgs

EndEvents == {"ScenarioPassedEvent", "ScenarioFailedEvent"}

\* The states of the plugin between two handler calls.
Quiet == {"idle", "returned", "raised"}

\* The callbacks of a queue.
Deferred(q) == {q[i].id : i \in 1..Len(q)}

\* A queue that is taken from its old end.
queue_pop_Left(q) == [item |-> q[1], rest |-> SubSeq(q, 2, Len(q))]

\* self._queue.pop(): the callback deferred last, and the queue without it.
queue_pop(q) == [item |-> q[Len(q)], rest |-> SubSeq(q, 1, Len(q) - 1)]

\* A handler of ScenarioRunEvent that leaves the queue as it is.
queue_clear_Nothing(q) == q

\* self._queue.clear()
queue_clear(q) == <<>>

\* A loop that goes on without waiting for the callback it called.
callback_awaited_Never(active) == TRUE

\* await fn(*args, **kwargs), or the plain call: the loop goes on when the
\* callback has completed.
callback_awaited(active) == active = {}

\* A loop that goes on after a callback raised.
after_callback_raise_Swallowed == "draining"

\* Nothing in on_scenario_end catches: the exception leaves the handler.
after_callback_raise == "raised"

\* defer(fn, *args, **kwargs): _queue.append((fn, args, kwargs))
defer ==
    /\ df_pc \in Quiet
    /\ df_n < MaxDefers
    /\ \E arg \in DeferArgs, coro \in BOOLEAN :
          /\ df_queue' = Append(df_queue, [id |-> df_n + 1, arg |-> arg, coro |-> coro])
          /\ df_runs' = Append(df_runs, [arg |-> arg, calls |-> 0])
    /\ df_n' = df_n + 1
    /\ df_pc' = "idle"
    /\ UNCHANGED <<df_event, df_active, df_at_fire, df_ran, df_stale, df_raised, df_fires>>
    /\ UNCHANGED outside_deferrer

\* ScenarioRunEvent is fired: on_scenario_run clears the queue.
on_scenario_run ==
    /\ df_pc \in Quiet
    /\ df_fires < MaxFires
    /\ df_queue' = queue_clear(df_queue)
    /\ df_stale' = df_stale \cup Deferred(df_queue)
    /\ df_event' = "ScenarioRunEvent"
    /\ df_pc' = "returned"
    /\ df_fires' = df_fires + 1
    /\ UNCHANGED <<df_active, df_at_fire, df_ran, df_runs, df_raised, df_n>>
    /\ UNCHANGED outside_deferrer

\* ScenarioPassedEvent or ScenarioFailedEvent is fired: on_scenario_end is
\* called and comes to its loop.
on_scenario_end ==
    /\ df_pc \in Quiet
    /\ df_fires < MaxFires
    /\ \E type \in EndEvents : df_event' = type
    /\ df_pc' = "draining"
    /\ df_at_fire' = df_queue
    /\ df_ran' = <<>>
    /\ df_raised' = 0
    /\ df_fires' = df_fires + 1
    /\ UNCHANGED <<df_queue, df_active, df_runs, df_stale, df_n>>
    /\ UNCHANGED outside_deferrer

\* on_scenario_end: while len(self._queue) > 0: fn, args, kwargs = pop();
\* the callback is called with them.
on_scenario_end_call ==
    /\ df_pc = "draining"
    /\ Len(df_queue) > 0
    /\ callback_awaited(df_active)
    /\ LET popped == queue_pop(df_queue)
       IN  /\ df_queue' = popped.rest
           /\ df_active' = df_active \cup {popped.item.id}
           /\ df_ran' = Append(df_ran, popped.item)
           /\ df_runs' = [df_runs EXCEPT ![popped.item.id].calls = @ + 1]
    /\ UNCHANGED <<df_pc, df_event, df_at_fire, df_stale, df_raised, df_n, df_fires>>
    /\ UNCHANGED outside_deferrer

\* The callback returns, or the coroutine it made completes.
callback_return ==
    /\ df_pc = "draining"
    /\ \E id \in df_active : df_active' = df_active \ {id}
    /\ UNCHANGED <<df_queue, df_pc, df_event, df_at_fire, df_ran, df_runs, df_stale,
                   df_raised, df_n, df_fires>>
    /\ UNCHANGED outside_deferrer

\* The callback raises.
callback_raise ==
    /\ df_pc = "draining"
    /\ \E id \in df_active :
          /\ df_active' = df_active \ {id}
          /\ df_raised' = id
    /\ df_pc' = after_callback_raise
    /\ UNCHANGED <<df_queue, df_event, df_at_fire, df_ran, df_runs, df_stale, df_n,
                   df_fires>>
    /\ UNCHANGED outside_deferrer

\* on_scenario_end: the queue is empty, the loop ends and the handler returns.
on_scenario_end_return ==
    /\ df_pc = "draining"
    /\ Len(df_queue) = 0
    /\ callback_awaited(df_active)
    /\ df_pc' = "returned"
    /\ UNCHANGED <<df_queue, df_event, df_active, df_at_fire, df_ran, df_runs, df_stale,
                   df_raised, df_n, df_fires>>
    /\ UNCHANGED outside_deferrer

\* DeferrerPlugin(Deferrer), subscribed to a dispatcher.
InitDeferrer ==
    /\ RunnerIdle
    /\ DispatcherIdle
    /\ SchedulerIdle
    /\ AggregateIdle
    /\ ResultIdle
    /\ ReportIdle
    /\ PluginsIdle
    /\ ViewIdle
    /\ UpgradeIdle
    /\ DeferrerIdle

NextDeferrer ==
    \/ defer
    \/ on_scenario_run
    \/ on_scenario_end
    \/ on_scenario_end_call
    \/ callback_return
    \/ callback_raise
    \/ on_scenario_end_return

SpecDeferrer == InitDeferrer /\ [][NextDeferrer]_vars

(***************************************************************************)
(* SystemUpgradePlugin: on_startup starts a thread that asks the API for   *)
(* the latest version and stores it; on_cleanup reads what is stored and   *)
(* adds a line to the report when it is newer than the running version.    *)
(* The thread and the run are two processes of the model.                  *)
(***************************************************************************)
\* The versions "a.b" with numeric parts, as the tuples _is_up_to_date makes.
Versions == [1..2 -> 0..MaxVersion]

\* A version string the parts of which int() refuses.
Malformed == <<NONE, NONE>>

\* self._latest_version is None.
NoVersion == <<>>

\* What _send_request returns: None after any exception, or the decoded
\* body: something without a "version", or a dictionary with one.
Responses ==
    {[kind |-> "None", version |-> NoVersion],
     [kind |-> "no_version", version |-> NoVersion]}
    \cup [kind : {"version"}, version : Versions \cup {Malformed}]

NoResponse == [kind |-> "None", version |-> NoVersion]

\* cur_ver >= new_ver on tuples: the first differing part decides.
RECURSIVE tuple_ge(_, _)
tuple_ge(a, b) ==
    IF b = <<>> THEN TRUE
    ELSE IF a = <<>> THEN FALSE
    ELSE IF Head(a) # Head(b) THEN Head(a) > Head(b)
    ELSE tuple_ge(Tail(a), Tail(b))

\* A comparison that takes an equal version for a newer one.
is_up_to_date_Strict(cur_version, new_version) ==
    IF new_version = Malformed THEN [raised |-> "ValueError", value |-> FALSE]
    ELSE [raised |-> "None",
          value |-> cur_version # new_version /\ tuple_ge(cur_version, new_version)]

\* _is_up_to_date: the result of the comparison, or the ValueError of int().
is_up_to_date(cur_version, new_version) ==
    IF new_version = Malformed THEN [raised |-> "ValueError", value |-> FALSE]
    ELSE [raised |-> "None", value |-> tuple_ge(cur_version, new_version)]

\* on_startup: the thread is made and started.
on_startup ==
    /\ su_pc = "init"
    /\ su_thread' = "Thread"
    /\ su_fetch' = "requesting"
    /\ su_pc' = "started"
    /\ UNCHANGED <<su_response, su_latest, su_cur, su_lines, su_seen, su_fetch_at_read,
                   su_raised>>
    /\ UNCHANGED outside_upgrade

\* The thread, _get_latest_version: _send_request returns, with the decoded
\* body or, after any exception, with None.
fetch_respond ==
    /\ su_fetch = "requesting"
    /\ \E response \in Responses : su_response' = response
    /\ su_fetch' = "responded"
    /\ UNCHANGED <<su_pc, su_thread, su_latest, su_cur, su_lines, su_seen,
                   su_fetch_at_read, su_raised>>
    /\ UNCHANGED outside_upgrade

\* The thread: if the response is a dictionary with a "version", it is stored;
\* the thread ends.
fetch_store ==
    /\ su_fetch = "responded"
    /\ su_latest' = IF su_response.kind = "version" THEN su_response.version
                    ELSE su_latest
    /\ su_fetch' = "done"
    /\ UNCHANGED <<su_pc, su_thread, su_response, su_cur, su_lines, su_seen,
                   su_fetch_at_read, su_raised>>
    /\ UNCHANGED outside_upgrade

\* on_cleanup: if self._thread: join(0.0), which returns at once whether the
\* thread has ended or not; self._thread = None.
cleanup_join ==
    /\ su_pc = "started"
    /\ su_thread' = "None"
    /\ su_pc' = "joined"
    /\ UNCHANGED <<su_fetch, su_response, su_latest, su_cur, su_lines, su_seen,
                   su_fetch_at_read, su_raised>>
    /\ UNCHANGED outside_upgrade

\* on_cleanup: if self._latest_version is None: return
cleanup_read ==
    /\ su_pc = "joined"
    /\ su_seen' = su_latest
    /\ su_fetch_at_read' = su_fetch
    /\ su_pc' = IF su_latest = NoVersion THEN "cleaned" ELSE "compare"
    /\ UNCHANGED <<su_thread, su_fetch, su_response, su_latest, su_cur, su_lines, su_raised>>
    /\ UNCHANGED outside_upgrade

\* on_cleanup: if not _is_up_to_date(cur, latest): report.add_summary(message)
cleanup_compare ==
    /\ su_pc = "compare"
    /\ LET up_to_date == is_up_to_date(su_cur, su_latest)
       IN  IF up_to_date.raised # "None"
           THEN /\ su_raised' = up_to_date.raised
                /\ UNCHANGED su_lines
           ELSE /\ su_lines' = IF up_to_date.value THEN su_lines
                               ELSE Append(su_lines, [cur |-> su_cur, latest |-> su_latest])
                /\ UNCHANGED su_raised
    /\ su_pc' = "cleaned"
    /\ UNCHANGED <<su_thread, su_fetch, su_response, su_latest, su_cur, su_seen,
                   su_fetch_at_read>>
    /\ UNCHANGED outside_upgrade

\* SystemUpgradePlugin(SystemUpgrade), of any running version.
InitUpgrade ==
    /\ RunnerIdle
    /\ DispatcherIdle
    /\ SchedulerIdle
    /\ AggregateIdle
    /\ ResultIdle
    /\ ReportIdle
    /\ PluginsIdle
    /\ ViewIdle
    /\ DeferrerIdle
    /\ su_pc = "init"
    /\ su_thread = "None"
    /\ su_fetch = "not_started"
    /\ su_response = NoResponse
    /\ su_latest = NoVersion
    /\ su_cur \in Versions
    /\ su_lines = <<>>
    /\ su_seen = NoVersion
    /\ su_fetch_at_read = "None"
    /\ su_raised = "None"

NextUpgrade ==
    \/ on_startup
    \/ fetch_respond
    \/ fetch_store
    \/ cleanup_join
    \/ cleanup_read
    \/ cleanup_compare

SpecUpgrade == InitUpgrade /\ [][NextUpgrade]_vars

(***************************************************************************)
(* Properties of the dispatcher, checked under SpecDispatcher.             *)
(***************************************************************************)
\* The positions of d_log where a handler was started.
Starts == {i \in 1..Len(d_log) : d_log[i].what = "start"}

\* The handlers fire has started, as a set.
Started == {d_log[i].handler : i \in Starts}

\* C1: the handlers of one fired event are invoked in the order they were
\* registered, and each runs to completion (returns or raises) before the next
\* one starts: at most one handler is running, and every start in the log is
\* directly followed by the end of that same handler.
C1_InOrderOneAtATime ==
    /\ Cardinality(d_active) <= 1
    /\ \A i, j \in Starts : i < j => d_log[i].handler < d_log[j].handler
    /\ \A i \in Starts :
          IF i = Len(d_log)
          THEN d_active = {d_log[i].handler}
          ELSE /\ d_log[i + 1].handler = d_log[i].handler
               /\ d_log[i + 1].what \in {"end", "raise"}

\* Three handlers of the fired type have run, one after the other, and fire
\* has returned.
C1_Witness ==
    /\ d_state = "returned"
    /\ Cardinality(Started) = 3
    /\ Len(d_log) = 6

\* C2: a handler that raises ends the fire: the exception leaves fire (the fire
\* ends raising, with no handler running), the raise is the last thing that
\* happens for that event, so no handler registered after the raising one is
\* invoked, and a fire that returned normally had no handler raise.
C2_RaisePropagates ==
    /\ \A i \in 1..Len(d_log) :
          d_log[i].what = "raise" =>
              /\ i = Len(d_log)
              /\ d_state = "raised"
              /\ d_active = {}
    /\ d_state = "raised" =>
          /\ Len(d_log) > 0
          /\ d_log[Len(d_log)].what = "raise"
          /\ d_pos = d_log[Len(d_log)].handler

\* The first handler raised while two more handlers of the same type were
\* registered after it.
C2_Witness ==
    /\ d_state = "raised"
    /\ Len(registry) = 3
    /\ \A k \in 1..3 : registry[k] = d_event
    /\ d_log = <<Log(1, "start"), Log(1, "raise")>>

\* C3: fire invokes exactly the handlers registered for the exact type of the
\* event, each once: the handlers started are those among the registry entries
\* gone through whose type is the fired type (never the other concrete type,
\* never the shared base class), no handler is started twice, and a fire that
\* returned has gone through every entry registered when it returned.
C3_ExactTypeOnce ==
    d_state # "idle" =>
        /\ Started = {k \in 1..d_pos : registry[k] = d_event}
        /\ \A i, j \in Starts : d_log[i].handler = d_log[j].handler => i = j
        /\ d_pos <= Len(registry)
        /\ (d_state = "returned" /\ d_log # <<>>) =>
              d_log[Len(d_log)].what = "end"

\* A fire returned with one handler of the fired type invoked while a handler
\* of the other concrete type and one of the base class were registered too.
C3_Witness ==
    /\ d_state = "returned"
    /\ d_pos = 3
    /\ Len(registry) = 3
    /\ d_event = "ScenarioFailEvent"
    /\ \E k \in 1..3 : registry[k] = "ScenarioPassEvent"
    /\ \E k \in 1..3 : registry[k] = "_ScenarioEvent"
    /\ Cardinality(Started) = 1

(***************************************************************************)
(* Properties of the runner, checked under Spec.                           *)
(***************************************************************************)
\* run_scenario has returned its result to Runner.run.
ScenarioReturned == pc = "scenario_return" /\ ~firing

\* An interrupt raised by a step has left run_step (and, nothing catching it,
\* run_scenario and Runner.run).
Interrupted == pc = "raised" /\ exc \in {"KeyboardInterrupt", "SystemExit", "CancelledError"}

\* The events fired for the current scenario.
ScenarioEvents == SelectSeq(events, LAMBDA e : e.scenario = idx)

Count(type) == Cardinality({i \in 1..Len(ScenarioEvents) : ScenarioEvents[i].type = type})

StepResults == scenario_result.step_results

FailedSteps == {i \in 1..Len(StepResults) : StepResults[i].status = "FAILED"}

\* The steps are invoked in declared order, each once: 1, 2, .. so far.
InvokedInOrder ==
    /\ Len(invoked) <= scenario.steps
    /\ \A i \in 1..Len(invoked) : invoked[i] = i

\* A failed step is the last step invoked: nothing runs after it.
NothingAfterFailure ==
    /\ \A i \in FailedSteps : i = Len(StepResults) /\ Len(invoked) = i
    /\ step_result.status = "FAILED" => Len(invoked) = step_result.step

\* step_results holds the results of steps 1..n in order, all passed but
\* possibly the last.
ResultsInOrder ==
    /\ \A i \in 1..Len(StepResults) : StepResults[i].step = i
    /\ \A i \in 1..Len(StepResults) :
          i < Len(StepResults) => StepResults[i].status = "PASSED"

\* C4 as stated: once run_scenario has ended (returned, or left by the
\* re-raised exception of its failing step) for a scenario whose step k failed,
\* steps 1..k were invoked and step_results has length k, the last one failed.
C4_Original ==
    ((ScenarioReturned \/ Interrupted) /\ step_result.status = "FAILED") =>
        /\ InvokedInOrder
        /\ Len(invoked) = step_result.step
        /\ Len(StepResults) = step_result.step
        /\ StepResults[Len(StepResults)].status = "FAILED"

\* C4 amended: steps are invoked in declared order, each once, and no step is
\* invoked after a failed one. When run_scenario returns after step k failed,
\* step_results has length k, the first k-1 passed and the last failed, and the
\* result is failed. When step k failed with an interrupt, run_scenario raises
\* instead and step_results holds only the k-1 passed results.
C4_StopsAtFirstFailure ==
    /\ InvokedInOrder
    /\ NothingAfterFailure
    /\ ResultsInOrder
    /\ (ScenarioReturned /\ step_result.status = "FAILED") =>
          /\ Len(invoked) = step_result.step
          /\ Len(StepResults) = step_result.step
          /\ StepResults[Len(StepResults)] = step_result
          /\ scenario_result.status = "FAILED"
    /\ Interrupted =>
          /\ Len(invoked) = step_result.step
          /\ Len(StepResults) = step_result.step - 1
          /\ FailedSteps = {}

\* run_scenario returned with the second of three steps failed: one passed
\* and one failed step result, the third step never invoked.
C4_Witness ==
    /\ ScenarioReturned
    /\ scenario.steps = 3
    /\ invoked = <<1, 2>>
    /\ Len(StepResults) = 2
    /\ StepResults[1].status = "PASSED"
    /\ StepResults[2].status = "FAILED"

\* C5: the result run_scenario returns for a scenario that is not skipped is
\* failed exactly if one of the executed steps failed and passed otherwise (so
\* passed with no steps), and the matching one of ScenarioFailEvent and
\* ScenarioPassEvent has been fired exactly once, the other never.
C5_FinalStatus ==
    (ScenarioReturned /\ ~scenario.skipped) =>
        /\ scenario_result.status = (IF FailedSteps # {} THEN "FAILED" ELSE "PASSED")
        /\ Count("ScenarioFailEvent") = (IF FailedSteps # {} THEN 1 ELSE 0)
        /\ Count("ScenarioPassEvent") = (IF FailedSteps # {} THEN 0 ELSE 1)
        /\ scenario.steps = 0 => scenario_result.status = "PASSED"
        /\ FailedSteps = {} => Len(StepResults) = scenario.steps

\* run_scenario returned a failed result after a step passed and a step failed.
C5_Witness ==
    /\ ScenarioReturned
    /\ ~scenario.skipped
    /\ Len(StepResults) = 2
    /\ FailedSteps = {2}
    /\ scenario_result.status = "FAILED"

\* C6: for a scenario marked skipped the only event ever fired is one
\* ScenarioSkipEvent, no step is invoked and no step result is recorded; the
\* result run_scenario returns is skipped, with that event fired.
C6_SkipShortCircuits ==
    (idx > 0 /\ scenario.skipped) =>
        /\ invoked = <<>>
        /\ StepResults = <<>>
        /\ step_result = NoStepResult
        /\ \A i \in 1..Len(ScenarioEvents) : ScenarioEvents[i].type = "ScenarioSkipEvent"
        /\ Len(ScenarioEvents) <= 1
        /\ (ScenarioReturned \/ pc \in {"run_loop", "run_returned", "done"}) =>
              /\ Len(ScenarioEvents) = 1
              /\ scenario_result.status = "SKIPPED"

\* run_scenario returned for a skipped scenario that has steps.
C6_Witness ==
    /\ ScenarioReturned
    /\ scenario.skipped
    /\ scenario.steps = 2
    /\ scenario_result.status = "SKIPPED"

\* The event that may directly follow another in the trace of a run.
MayFollow(prev, next) ==
    CASE prev.type \in {"ScenarioSkipEvent", "ScenarioPassEvent", "ScenarioFailEvent"} ->
            \/ /\ next.type \in {"ScenarioSkipEvent", "ScenarioRunEvent"}
               /\ next.scenario = prev.scenario + 1
            \/ next.type = "CleanupEvent"
      [] prev.type \in {"ScenarioRunEvent", "StepPassEvent"} ->
            /\ next.scenario = prev.scenario
            /\ \/ next.type = "StepRunEvent" /\ next.step = prev.step + 1
               \/ next.type = "ScenarioPassEvent"
      [] prev.type = "StepRunEvent" ->
            /\ next.scenario = prev.scenario
            /\ next.type \in {"StepPassEvent", "StepFailEvent"}
            /\ next.step = prev.step
      [] prev.type = "StepFailEvent" ->
            /\ next.scenario = prev.scenario
            /\ next.type = "ScenarioFailEvent"
      [] OTHER -> FALSE

Terminal(e) == e.type \in {"ScenarioSkipEvent", "ScenarioPassEvent", "ScenarioFailEvent"}

\* C7: the events of a run form one sequential, well-nested trace. It starts
\* with the first scenario's skip or run event (or, with no scenario, the
\* cleanup event); each event is followed only by the event the state machines
\* allow (run, then per step step-run and its step-passed or step-failed, then
\* scenario-passed or scenario-failed; the next scenario's first event only
\* after the terminal event of the one before); an event is fired only when
\* the one before it has been handled; a step body runs only between its
\* step-run event and its own outcome event; and when run_scenario returns the
\* scenario's terminal event has been fired and handled.
C7_WellNestedTrace ==
    /\ events # <<>> =>
          \/ events[1].type \in {"ScenarioSkipEvent", "ScenarioRunEvent"}
             /\ events[1].scenario = 1
          \/ events[1].type = "CleanupEvent" /\ n_scenarios = 0
    /\ \A i \in 1..(Len(events) - 1) :
          /\ MayFollow(events[i], events[i + 1])
          /\ events[i].handled
    /\ firing => (events # <<>> /\ ~events[Len(events)].handled)
    /\ (~firing /\ events # <<>> /\ pc # "raised") => events[Len(events)].handled
    /\ pc = "step_body" =>
          /\ events[Len(events)] =
                [scenario |-> idx, type |-> "StepRunEvent",
                 step |-> step_result.step, handled |-> TRUE]
          /\ invoked[Len(invoked)] = step_result.step
    /\ (ScenarioReturned \/ (pc = "run_loop" /\ idx > 0)) =>
          /\ Terminal(events[Len(events)])
          /\ events[Len(events)].scenario = idx
          /\ events[Len(events)].handled
    /\ pc = "run_scenario" =>
          \/ idx = 1 /\ events = <<>>
          \/ /\ idx > 1
             /\ Terminal(events[Len(events)])
             /\ events[Len(events)].scenario = idx - 1

\* A second scenario has gone through a passed and a failed step after a first
\* scenario ended, and the run has returned.
C7_Witness ==
    /\ pc = "done"
    /\ ~firing
    /\ idx = 2
    /\ Len(events) >= 9
    /\ Count("StepPassEvent") = 1
    /\ Count("StepFailEvent") = 1

\* C8: an exception of a step body whose type is not in the interrupt set
\* never leaves run_step: whatever propagates out of the run is a handler's
\* failure or an interrupt; and when run_step returns a failed result, the
\* result has its end time and the exception, and StepFailEvent was fired for
\* it and handled.
C8_StepFailureIsCaptured ==
    /\ pc = "raised" =>
          \/ exc = HandlerError
          \/ exc \in {"KeyboardInterrupt", "SystemExit", "CancelledError"}
    /\ (pc = "step_return" /\ ~firing /\ step_result.status = "FAILED") =>
          /\ step_result.exc_info = "AssertionError"
          /\ step_result.started_at # NONE
          /\ step_result.ended_at # NONE
          /\ events[Len(events)] =
                [scenario |-> idx, type |-> "StepFailEvent",
                 step |-> step_result.step, handled |-> TRUE]

\* After a scenario failed on an ordinary step exception the run loop has
\* gone on to the next scenario.
C8_Witness ==
    /\ pc = "run_scenario"
    /\ idx = 2
    /\ report.total = 1
    /\ report.failed = 1
    /\ \E i \in 1..Len(events) : events[i].type = "StepFailEvent"

\* C9 (state part): when an interrupt has left run_step, the step result is
\* failed with its end time and that exception, StepFailEvent was fired for it
\* and handled before the re-raise; an exception of an interrupt type is never
\* passed over by run_step.
C9_InterruptRecorded ==
    /\ Interrupted =>
          /\ step_result.status = "FAILED"
          /\ step_result.ended_at # NONE
          /\ step_result.exc_info = exc
          /\ events[Len(events)] =
                [scenario |-> idx, type |-> "StepFailEvent",
                 step |-> step_result.step, handled |-> TRUE]
    /\ (pc = "step_return" /\ step_result.status = "FAILED") =>
          step_result.exc_info \notin {"KeyboardInterrupt", "SystemExit", "CancelledError"}

\* C9: an interrupt raised by a step is recorded as the step's failure, the
\* step-failed event is fired, and only then it is re-raised; it propagates out
\* of run_scenario and the run loop: after it, nothing more happens in the run
\* (no step, no scenario, no event).
C9_InterruptUnwinds ==
    /\ []C9_InterruptRecorded
    /\ [][pc # "raised"]_vars

\* An interrupt stopped the run in the first step of the first scenario, with
\* more steps and another scenario left.
C9_Witness ==
    /\ Interrupted
    /\ exc = "KeyboardInterrupt"
    /\ idx = 1
    /\ n_scenarios = 2
    /\ scenario.steps = 2
    /\ invoked = <<1>>

\* C10 as stated: when an interrupt has stopped the run loop, Runner.run has
\* returned the report built so far and a CleanupEvent carrying it was fired.
\* (The state after the interrupt is final: nothing is returned or fired later.)
C10_PartialReportReturned ==
    Interrupted =>
        /\ returned = report
        /\ cleanup = report

(***************************************************************************)
(* Properties of the run loop, checked under Spec.                         *)
(***************************************************************************)
\* The events a run_scenario call begins with, in the order they were fired:
\* one per scenario the loop has called run_scenario for.
Beginnings ==
    SelectSeq(events, LAMBDA e : e.type \in {"ScenarioSkipEvent", "ScenarioRunEvent"})

\* Runner.run has returned its report to the run command.
RunReturned == pc \in {"run_returned", "done"}

\* C11: the run loop takes the scenarios in the order given, each once
\* (run_scenario is begun for the 1st, the 2nd, ... and never again for one
\* already taken), whatever the results before; every time the loop is back at
\* its head the report has counted one result per scenario taken, each as
\* passed, failed or skipped; and when Runner.run returns, no interrupt having
\* stopped it, the report's total is the number of scenarios given and
\* passed + failed + skipped = total.
C11_EveryScenarioOnce ==
    /\ Len(Beginnings) \in {idx - 1, idx} \cap (0..n_scenarios)
    /\ \A i \in 1..Len(Beginnings) : Beginnings[i].scenario = i
    /\ (pc = "run_loop" /\ ~firing) =>
          /\ Len(Beginnings) = idx
          /\ report.total = idx
          /\ report.passed + report.failed + report.skipped = report.total
    /\ RunReturned =>
          /\ Len(Beginnings) = n_scenarios
          /\ returned.total = n_scenarios
          /\ returned.passed + returned.failed + returned.skipped = returned.total

\* Runner.run returned a report of two scenarios, the first of which failed and
\* the second of which was skipped.
C11_Witness ==
    /\ RunReturned
    /\ n_scenarios = 2
    /\ returned.total = 2
    /\ returned.failed = 1
    /\ returned.skipped = 1
    /\ \E i \in 1..Len(events) :
          events[i].scenario = 1 /\ events[i].type = "ScenarioFailEvent"

\* C12: Runner.run on an empty list of scenarios fires no scenario event and
\* no step event (the only event of the whole run is the cleanup event) and
\* returns a report whose total, passed, failed and skipped are 0, whose
\* started_at and ended_at are unset and whose elapsed time is 0.
C12_EmptyRun ==
    n_scenarios = 0 =>
        /\ \A i \in 1..Len(events) : events[i].type = "CleanupEvent"
        /\ ~Interrupted
        /\ RunReturned =>
              /\ returned.total = 0
              /\ returned.passed = 0
              /\ returned.failed = 0
              /\ returned.skipped = 0
              /\ returned.started_at = NONE
              /\ returned.ended_at = NONE
              /\ returned.summary = <<>>
              /\ elapsed(returned) = 0

\* The run of an empty list is over: Runner.run returned and the cleanup event
\* it was followed by has been handled.
C12_Witness ==
    /\ n_scenarios = 0
    /\ pc = "done"
    /\ ~firing
    /\ events # <<>>
    /\ cleanup = returned

(***************************************************************************)
(* Properties of the scheduler, checked under SpecScheduler (any           *)
(* interleaving of schedule, ignore and iteration steps) and, for the      *)
(* undisturbed iteration, under SpecIteration.                             *)
(***************************************************************************)
\* The step is an iteration step that yields a scenario.
Yields == s_yielded' # s_yielded

\* The step is an iteration step that ends the iteration.
Ends == s_done' /\ ~s_done

\* The step is a call of schedule, of ignore.
CallsSchedule == s_calls' # s_calls /\ s_op'.name = "schedule"
CallsIgnore == s_calls' # s_calls /\ s_op'.name = "ignore"

Occurrences(q, key) == Cardinality({i \in 1..Len(q) : q[i] = key})

NoDuplicates(q) == \A i, j \in 1..Len(q) : q[i] = q[j] => i = j

\* C13: a scenario that was ignored and has not been scheduled again since is
\* not in the scenarios view, and no iteration step yields it.
C13_IgnoredStaysOut ==
    /\ [](\A id \in s_ignored : id \notin Range(scenarios(s_scenarios)))
    /\ [][Yields => s_yielded'[Len(s_yielded')] \notin s_ignored]_vars

\* A pending scenario was ignored, the iteration went on to yield the two
\* others and ended without it.
C13_Witness ==
    /\ s_done
    /\ Len(s_input) = 3
    /\ Len(s_yielded) = 2
    /\ \E id \in s_ignored : id \in Range(s_input) /\ id \notin Range(s_yielded)

\* C14: an iteration step looks at the pending scenarios as they are when it is
\* made: it yields the first of them and takes it out of the pending scenarios
\* in the same step, leaving the others as they were; and it ends the iteration
\* only when no scenario is pending, so a scenario scheduled after everything
\* had been yielded is yielded by the next step.
C14_LiveIteration ==
    /\ [][Yields =>
            /\ s_scenarios # <<>>
            /\ s_yielded' = Append(s_yielded, s_scenarios[1])
            /\ s_scenarios[1] \notin Range(s_scenarios')
            /\ s_scenarios' = Remove(s_scenarios, s_scenarios[1])
            /\ ~s_done']_vars
    /\ [][Ends => s_scenarios = <<>> /\ s_yielded' = s_yielded]_vars
    /\ [][(~s_done /\ s_op'.name = "__anext__" /\ s_scenarios # <<>>) => Yields]_vars

\* Both scenarios had been yielded when the first was scheduled again, and the
\* next iteration step yielded it.
C14_Witness ==
    /\ s_input = <<1, 2>>
    /\ s_yielded = <<1, 2, 1>>
    /\ s_scenarios = <<>>
    /\ ~s_done

\* C15: a schedule call that is accepted leaves exactly one entry of the
\* scenario in the pending scenarios, the last one, and the other entries in
\* the order they had; a second call for the same scenario right after the
\* first changes nothing.
C15_ScheduleMovesToEnd ==
    /\ [][(CallsSchedule /\ s_op'.raised = "None") =>
            /\ Occurrences(s_scenarios', s_op'.scenario) = 1
            /\ s_scenarios'[Len(s_scenarios')] = s_op'.scenario
            /\ Remove(s_scenarios', s_op'.scenario) = Remove(s_scenarios, s_op'.scenario)]_vars
    /\ [][(CallsSchedule /\ s_op' = s_op /\ s_op.raised = "None") =>
            s_scenarios' = s_scenarios]_vars
    /\ [](NoDuplicates(s_scenarios))

\* Two schedule calls were made on three pending scenarios, the last of them
\* for the first scenario: it is last, once, behind the two others in their
\* order.
C15_Witness ==
    /\ s_input = <<1, 2, 3>>
    /\ s_scenarios = <<2, 3, 1>>
    /\ s_yielded = <<>>
    /\ s_calls = 2
    /\ s_ignored = {}
    /\ s_op = [name |-> "schedule", scenario |-> 1, raised |-> "None"]

\* C16: ignore never raises, also for a scenario that is not pending (never
\* there, already yielded, already ignored); after it the scenario is not
\* pending, the other pending scenarios are those there were, in the order they
\* had, so that ignoring a scenario that is not pending, a second time
\* included, changes nothing; and it yields nothing and does not end the
\* iteration.
C16_IgnoreIdempotent ==
    /\ [](s_op.name = "ignore" => s_op.raised = "None")
    /\ [][CallsIgnore =>
            /\ s_op'.scenario \notin Range(s_scenarios')
            /\ s_scenarios' = Remove(s_scenarios, s_op'.scenario)
            /\ (s_op'.scenario \notin Range(s_scenarios) => s_scenarios' = s_scenarios)
            /\ s_yielded' = s_yielded
            /\ s_done' = s_done]_vars

\* Two ignore calls were made for a scenario the scheduler was not built from:
\* the two pending scenarios are as they were.
C16_Witness ==
    /\ s_input = <<1, 2>>
    /\ s_scenarios = <<1, 2>>
    /\ s_ignored = {3}
    /\ s_calls = 2
    /\ s_op = [name |-> "ignore", scenario |-> 3, raised |-> "None"]

\* C17: the iteration of a scheduler built from scenarios of distinct
\* unique_ids, with no schedule and no ignore call, yields the scenarios in the
\* order they were given, each once (what was yielded followed by what is
\* pending is the list given), and then ends: it ends having yielded exactly
\* the list given, and it does end.
C17_IteratesAllOnce ==
    /\ [](NoDuplicates(s_input) =>
            /\ s_yielded \o s_scenarios = s_input
            /\ s_done => s_yielded = s_input)
    /\ <>s_done

\* The iteration of three scenarios ended after it yielded the three of them in
\* the order given.
C17_Witness ==
    /\ s_done
    /\ s_input = <<2, 1, 3>>
    /\ s_yielded = <<2, 1, 3>>
    /\ s_calls = 0

\* C21: a schedule call for a scenario the scheduler was not built from raises
\* and is not taken as a scenario to run: the pending scenarios are as they
\* were, and the scenario is never yielded.
C21_UnknownScheduleRaises ==
    /\ []((s_op.name = "schedule" /\ s_op.scenario \notin Range(s_input)) =>
            s_op.raised # "None")
    /\ [][(CallsSchedule /\ s_op'.scenario \notin Range(s_input)) =>
            /\ s_scenarios' = s_scenarios
            /\ s_yielded' = s_yielded]_vars
    /\ [](Range(s_scenarios) \cup Range(s_yielded) \subseteq Range(s_input))

\* schedule was called for a third scenario on a scheduler built from two
\* others, and raised.
C21_Witness ==
    /\ s_input = <<1, 2>>
    /\ s_scenarios = <<1, 2>>
    /\ s_op = [name |-> "schedule", scenario |-> 3, raised |-> "Error"]

(***************************************************************************)
(* Properties of the resolution of results, checked under SpecAggregate.   *)
(***************************************************************************)
\* The positions of the results with a status in the list given.
PositionsOf(status) == {i \in 1..Len(a_results) : a_results[i].status = status}

\* The last position of a non-empty set of positions.
LastOf(positions) == CHOOSE i \in positions : \A j \in positions : j <= i

\* Every result of the list is the result of an execution: passed or failed.
AllExecuted == \A i \in 1..Len(a_results) : a_results[i].status \in {"PASSED", "FAILED"}

\* C18: aggregate_results on a list of one result R returns, without raising,
\* a result with R's scenario, status, start and end times, scope, step results
\* and artifacts.
C18_SinglePassThrough ==
    (a_call = "aggregate_results" /\ Len(a_results) = 1) =>
        /\ a_raised = "None"
        /\ a_out.scenario = a_results[1].scenario
        /\ a_out.status = a_results[1].status
        /\ a_out.started_at = a_results[1].started_at
        /\ a_out.ended_at = a_results[1].ended_at
        /\ (IF a_out.scope_set THEN a_out.scope ELSE 0) =
              (IF a_results[1].scope_set THEN a_results[1].scope ELSE 0)
        /\ a_out.step_results = a_results[1].step_results
        /\ a_out.artifacts = a_results[1].artifacts

\* aggregate_results returned for the one result of a failed execution.
C18_Witness ==
    /\ a_call = "aggregate_results"
    /\ Len(a_results) = 1
    /\ a_results[1].status = "FAILED"
    /\ a_out.started_at = 3
    /\ a_raised = "None"

\* C19: for the results of one or more executions (each passed or failed)
\* _find_resolution returns the last passed result when the passed ones are
\* strictly more than the failed ones, and the last failed result otherwise,
\* ties included.
C19_MajorityRule ==
    (a_call = "_find_resolution" /\ a_results # <<>> /\ AllExecuted) =>
        /\ a_raised = "None"
        /\ IF Cardinality(PositionsOf("PASSED")) > Cardinality(PositionsOf("FAILED"))
           THEN a_out = a_results[LastOf(PositionsOf("PASSED"))]
           ELSE a_out = a_results[LastOf(PositionsOf("FAILED"))]

\* A tie: the first execution failed and the second passed, and the resolution
\* is the failed one.
C19_Witness ==
    /\ a_call = "_find_resolution"
    /\ Len(a_results) = 2
    /\ a_results[1].status = "FAILED"
    /\ a_results[2].status = "PASSED"
    /\ a_out = a_results[1]

\* C20: from_existing and aggregate_results given an empty list raise and
\* return nothing, and every AggregatedResult they return holds a non-empty
\* list of scenario results: the list it was made from.
C20_EmptyListRaises ==
    /\ (a_call \in {"from_existing", "aggregate_results"} /\ a_results = <<>>) =>
          /\ a_raised # "None"
          /\ a_out.scenario = 0
    /\ (a_call \in {"from_existing", "aggregate_results"}
            /\ a_out.class = "AggregatedResult") =>
          /\ a_out.scenario_results # <<>>
          /\ a_out.scenario_results = a_results

\* from_existing was called with a failed main result and an empty list, and
\* raised.
C20_Witness ==
    /\ a_call = "from_existing"
    /\ a_results = <<>>
    /\ a_main.status = "FAILED"
    /\ a_raised = "AssertionError"

\* C25: the aggregate from_existing returns has the scenario, the status
\* (pending too), the timestamps, the scope, the step results and the artifacts
\* of the main result, and holds the results it was given, in their order; the
\* call leaves the list it was given as it was.
C25_AggregateCopiesMain ==
    /\ []((a_call = "from_existing" /\ a_raised = "None") =>
            /\ a_out.class = "AggregatedResult"
            /\ a_out.scenario = a_main.scenario
            /\ a_out.status = a_main.status
            /\ a_out.started_at = a_main.started_at
            /\ a_out.ended_at = a_main.ended_at
            /\ (IF a_out.scope_set THEN a_out.scope ELSE 0) =
                  (IF a_main.scope_set THEN a_main.scope ELSE 0)
            /\ a_out.step_results = a_main.step_results
            /\ a_out.artifacts = a_main.artifacts
            /\ a_out.scenario_results = a_results)
    /\ [][a_results' = a_results]_vars

\* from_existing returned the aggregate of two results for a main result that
\* was skipped and is not one of the two.
C25_Witness ==
    /\ a_call = "from_existing"
    /\ a_raised = "None"
    /\ Len(a_results) = 2
    /\ a_main.status = "SKIPPED"
    /\ a_main \notin {a_results[1], a_results[2]}
    /\ a_out.status = "SKIPPED"

(***************************************************************************)
(* Properties of the setters of a ScenarioResult, checked under            *)
(* SpecResult.                                                             *)
(***************************************************************************)
\* The calls of the log that set the status, the start, the end.
Marks == SelectSeq(sr_log, LAMBDA c : c.name \in {"mark_passed", "mark_failed", "mark_skipped"})
Starts_at == SelectSeq(sr_log, LAMBDA c : c.name = "set_started_at")
Ends_at == SelectSeq(sr_log, LAMBDA c : c.name = "set_ended_at")

\* C24 as stated: whatever setters are called, in whatever order, the status
\* leaves pending once and never changes afterwards, and each timestamp is
\* assigned at most once: the status is the one of the first mark call, and
\* started_at and ended_at are the values of the first call that set them.
C24_OneWayStatus ==
    /\ (IF Marks = <<>> THEN sr_result.status = "PENDING"
        ELSE sr_result.status = Marks[1].arg)
    /\ (IF Starts_at = <<>> THEN sr_result.started_at = NONE
        ELSE sr_result.started_at = Starts_at[1].arg)
    /\ (IF Ends_at = <<>> THEN sr_result.ended_at = NONE
        ELSE sr_result.ended_at = Ends_at[1].arg)

(***************************************************************************)
(* Properties of the Report, checked under SpecReport.                     *)
(***************************************************************************)
\* The step is an add_result call, an add_summary call.
AddsResult == rp_calls' # rp_calls
AddsSummary == Len(rp_lines') # Len(rp_lines)

\* The results counted in one of the three status counters.
Counted(rep) == rep.passed + rep.failed + rep.skipped

\* The least, the greatest of a non-empty set of timestamps.
Least(ts) == CHOOSE t \in ts : \A u \in ts : t <= u
Greatest(ts) == CHOOSE t \in ts : \A u \in ts : u <= t

\* C22: after any sequence of add_result calls total is the number of calls,
\* and passed, failed and skipped are the numbers of results added with that
\* status, a pending result being counted in total only, so that passed +
\* failed + skipped <= total; each call adds exactly 1 to total and at most 1,
\* to one of the three status counters.
C22_CountersCount ==
    /\ [](/\ rp_report.total = rp_calls
          /\ rp_report.passed = rp_counts["PASSED"]
          /\ rp_report.failed = rp_counts["FAILED"]
          /\ rp_report.skipped = rp_counts["SKIPPED"]
          /\ Counted(rp_report) = rp_report.total - rp_counts["PENDING"]
          /\ Counted(rp_report) <= rp_report.total)
    /\ [][AddsResult =>
            /\ rp_report'.total = rp_report.total + 1
            /\ Counted(rp_report') - Counted(rp_report) \in {0, 1}
            /\ rp_report'.passed >= rp_report.passed
            /\ rp_report'.failed >= rp_report.failed
            /\ rp_report'.skipped >= rp_report.skipped]_vars

\* Two results were added, one of them failed and the other pending: total is
\* 2 and one result is counted.
C22_Witness ==
    /\ rp_calls = 2
    /\ rp_counts["FAILED"] = 1
    /\ rp_counts["PENDING"] = 1
    /\ rp_report.total = 2
    /\ Counted(rp_report) = 1

\* C23 as stated: after any sequence of add_result calls started_at is the
\* least started_at and ended_at the greatest ended_at of the results added
\* that have it set, 0 being a timestamp like any other; each is unset while no
\* result added has it; and elapsed is ended_at - started_at, or 0 while one of
\* them is unset.  (The sets forget the order the results were added in.)
C23_MinStartMaxEnd ==
    /\ rp_report.started_at = (IF rp_starts = {} THEN NONE ELSE Least(rp_starts))
    /\ rp_report.ended_at = (IF rp_ends = {} THEN NONE ELSE Greatest(rp_ends))
    /\ elapsed(rp_report) =
          (IF rp_starts = {} \/ rp_ends = {} THEN 0
           ELSE Greatest(rp_ends) - Least(rp_starts))

\* C26: the summary of the report is always the lines given to add_summary,
\* in the order they were given, whatever was done to a list the summary
\* property returned; add_summary appends its line and changes no counter and
\* no timestamp; add_result changes no line; and no step takes a line away or
\* lowers a counter.
C26_ReportOnlyGrows ==
    /\ [](rp_report.summary = rp_lines)
    /\ [][AddsSummary =>
            /\ Len(rp_report'.summary) = Len(rp_report.summary) + 1
            /\ SubSeq(rp_report'.summary, 1, Len(rp_report.summary)) = rp_report.summary
            /\ [rp_report' EXCEPT !.summary = <<>>] = [rp_report EXCEPT !.summary = <<>>]]_vars
    /\ [][AddsResult => rp_report'.summary = rp_report.summary]_vars
    /\ [][/\ Len(rp_report'.summary) >= Len(rp_report.summary)
          /\ SubSeq(rp_report'.summary, 1, Len(rp_report.summary)) = rp_report.summary
          /\ rp_report'.total >= rp_report.total
          /\ rp_report'.passed >= rp_report.passed
          /\ rp_report'.failed >= rp_report.failed
          /\ rp_report'.skipped >= rp_report.skipped]_vars

\* The list the summary property returned was emptied by its caller, and the
\* report still has the two lines and the result added to it.
C26_Witness ==
    /\ rp_got.mutated
    /\ rp_got.items = <<>>
    /\ rp_report.summary = <<1, 2>>
    /\ rp_report.total = 1

(***************************************************************************)
(* Properties of the validation, registration and order of the plugins,    *)
(* checked under SpecPlugins.                                              *)
(***************************************************************************)
Descriptors == 1..Len(p_config)

\* The descriptor is not configured.
Missing(dep) == dep \notin Descriptors

\* The validation of descriptor k raised.
RaisedAt(k) == p_pc = "raised" /\ p_pos + 1 = k

\* The descriptor names a dependency that is not configured, or is enabled and
\* names a disabled one.
BadDependency(k) ==
    \E dep \in p_config[k].depends_on :
        \/ Missing(dep)
        \/ (p_config[k].enabled /\ ~Missing(dep) /\ ~p_config[dep].enabled)

Invalid(k) == ~p_config[k].well_typed \/ BadDependency(k)

C28_ValidatedBeforeRegistered ==
    /\ (\/ p_registered # <<>>
        \/ p_fired # <<>>
        \/ p_invoked # {}
        \/ \E k \in Descriptors : p_instances[k] > 0)
            => /\ p_validated = Descriptors
               /\ \A k \in Descriptors : ~Invalid(k)
    /\ (\E k \in Descriptors : Invalid(k))
            => /\ p_pc \in {"run", "validate", "raised"}
               /\ p_registered = <<>>
               /\ p_fired = <<>>
    /\ p_pc = "raised"
            => /\ p_error # "None"
               /\ p_registered = <<>>
               /\ p_fired = <<>>
               /\ \A k \in Descriptors : p_instances[k] = 0

\* An enabled descriptor was validated and collected, then the validation of a
\* disabled one raised: nothing is registered and nothing was fired.
C28_Witness ==
    /\ p_pc = "raised"
    /\ p_plugins = <<1>>
    /\ ~p_config[2].enabled
    /\ RaisedAt(2)
    /\ p_registered = <<>>
    /\ p_fired = <<>>

\* C29: a descriptor is instantiated as many times as it is registered, at
\* most once, and a disabled one never; no handler of a disabled descriptor is
\* invoked; and when ConfigLoadedEvent has been fired the registered plugins
\* are exactly the enabled descriptors, each instantiated and registered once.
C29_ExactlyEnabledRegistered ==
    /\ \A k \in Descriptors :
          /\ p_instances[k] = Occurrences(p_registered, k)
          /\ p_instances[k] <= 1
          /\ ~p_config[k].enabled => (p_instances[k] = 0 /\ k \notin p_invoked)
    /\ Range(p_registered) \subseteq Descriptors
    /\ p_invoked \subseteq Range(p_registered)
    /\ p_pc = "config_loaded" =>
          \A k \in Descriptors :
              p_config[k].enabled => (p_instances[k] = 1 /\ Occurrences(p_registered, k) = 1)

\* Of two descriptors the second is enabled and the first is not:
\* ConfigLoadedEvent was fired and only the second was registered and invoked.
C29_Witness ==
    /\ p_pc = "config_loaded"
    /\ Len(p_config) = 2
    /\ ~p_config[1].enabled
    /\ p_config[2].enabled
    /\ p_registered = <<2>>
    /\ p_invoked = {2}

\* The descriptors that k depends on, directly or through others, following at
\* most depth dependencies.
RECURSIVE Needs(_, _)
Needs(k, depth) ==
    IF depth = 0 \/ Missing(k) THEN {}
    ELSE p_config[k].depends_on
            \cup UNION {Needs(dep, depth - 1) : dep \in p_config[k].depends_on}

Acyclic == \A k \in Descriptors : k \notin Needs(k, Len(p_config))

\* C30: when the dependencies have no cycle and the plugins are registered,
\* every plugin is registered after all the plugins it depends on; and when no
\* registered plugin depends on anything they are registered in the order of
\* their declaration.
C30_TopologicalOrder ==
    (p_pc = "config_loaded" /\ Acyclic) =>
        /\ \A i, j \in 1..Len(p_registered) :
              p_registered[j] \in Needs(p_registered[i], Len(p_config)) => j < i
        /\ (\A i \in 1..Len(p_registered) : p_config[p_registered[i]].depends_on = {})
              => \A i, j \in 1..Len(p_registered) :
                    i < j => p_registered[i] < p_registered[j]

(***************************************************************************)
(* Properties of the whole run command, checked under SpecCommand.         *)
(***************************************************************************)
LifecycleTypes == {"ArgParseEvent", "ArgParsedEvent", "StartupEvent", "CleanupEvent"}

\* The positions in the trace of the events of a type.
FiredAt(type) == {i \in 1..Len(events) : events[i].type = type}

\* Some event of the type was fired before position j, and fire had returned
\* for it.
HandledBefore(type, j) == \E i \in FiredAt(type) : i < j /\ events[i].handled

\* C31: no lifecycle event is fired twice, and a run command that reaches its
\* end without an error has fired each exactly once; the first event after
\* ConfigLoadedEvent is fired only when every enabled plugin is registered;
\* ArgParsedEvent is fired after ArgParseEvent was handled, StartupEvent after
\* ArgParsedEvent was handled, every scenario and step event after the
\* handlers of StartupEvent have completed; and CleanupEvent is the last
\* event fired and carries the report the runner returned.
C31_LifecycleOrder ==
    /\ \A type \in LifecycleTypes : Cardinality(FiredAt(type)) <= 1
    /\ (pc = "done" /\ ~firing) =>
          \A type \in LifecycleTypes : Cardinality(FiredAt(type)) = 1
    /\ events # <<>> =>
          /\ p_fired = <<"ConfigLoadedEvent">>
          /\ Range(p_registered) = {k \in 1..Len(p_config) : p_config[k].enabled}
    /\ \A j \in FiredAt("ArgParsedEvent") : HandledBefore("ArgParseEvent", j)
    /\ \A j \in FiredAt("StartupEvent") : HandledBefore("ArgParsedEvent", j)
    /\ \A j \in 1..Len(events) :
          events[j].type \notin LifecycleTypes => HandledBefore("StartupEvent", j)
    /\ \A j \in FiredAt("CleanupEvent") :
          /\ j = Len(events)
          /\ HandledBefore("StartupEvent", j)
          /\ returned # NoReport
          /\ cleanup = returned

\* A run command with a plugin registered ran a scenario whose step passed and
\* came to its end: CleanupEvent was handled and carried a report of one result.
C31_Witness ==
    /\ pc = "done"
    /\ ~firing
    /\ p_registered # <<>>
    /\ FiredAt("StepPassEvent") # {}
    /\ events[Len(events)].type = "CleanupEvent"
    /\ events[Len(events)].handled
    /\ cleanup.total >= 1

(***************************************************************************)
(* Properties of the DeferrerPlugin, checked under SpecDeferrer.           *)
(***************************************************************************)
\* The last handler call was for a scenario-end event.
EndFired == df_event \in EndEvents

C33_RunClearsQueue ==
    /\ (df_event = "ScenarioRunEvent" /\ df_pc = "returned") =>
          /\ df_queue = <<>>
          /\ df_active = {}
    /\ \A id \in df_stale :
          /\ df_runs[id].calls = 0
          /\ id \notin Deferred(df_queue)
          /\ id \notin df_active

\* A callback was deferred, ScenarioRunEvent was fired, another was deferred
\* and a scenario-end event handled: the second ran, the first never did.
C33_Witness ==
    /\ df_stale = {1}
    /\ df_runs[1].calls = 0
    /\ EndFired
    /\ df_pc = "returned"
    /\ Len(df_ran) = 1
    /\ df_ran[1].id = 2

\* The callbacks that were in the queue when the last scenario-end event was
\* fired and were not called for it.
LeftOver == {df_at_fire[i].id : i \in 1..(Len(df_at_fire) - Len(df_ran))}

\* C38: when a callback raised while a scenario-end event was handled, the
\* handler did not go on and did not return: the exception left it; the
\* callback that raised is the last that was called, the callbacks that were
\* behind it in the queue were not called during the event, and as long as no
\* other scenario-end event is fired they are not called at all: they are in
\* the queue, or were cleared from it by a ScenarioRunEvent.
C38_RaiseLeavesQueue ==
    df_raised # 0 =>
        /\ EndFired => df_pc \in {"raised", "idle"}
        /\ df_ran # <<>>
        /\ df_ran[Len(df_ran)].id = df_raised
        /\ df_active = {}
        /\ \A id \in LeftOver :
              /\ df_runs[id].calls = 0
              /\ id \in Deferred(df_queue) \/ id \in df_stale
        /\ df_event = "ScenarioRunEvent" =>
              /\ df_queue = <<>> \/ df_pc = "idle"
              /\ LeftOver \subseteq df_stale

\* Of two callbacks the one deferred last raised during a scenario-end event;
\* the next ScenarioRunEvent cleared the queue and the first was never called.
C38_Witness ==
    /\ df_raised = 2
    /\ df_event = "ScenarioRunEvent"
    /\ df_pc = "returned"
    /\ LeftOver = {1}
    /\ df_stale = {1}
    /\ df_runs[1].calls = 0
    /\ df_queue = <<>>

(***************************************************************************)
(* Properties of the results the runner's handlers and callers see,        *)
(* checked under Spec.                                                     *)
(***************************************************************************)
\* The event whose handlers are running.
Handled == events[Len(events)]

Final(result) == result.started_at # NONE /\ result.ended_at # NONE

\* C34: while the handlers of an event run, the result the event carries is:
\* for ScenarioRunEvent and StepRunEvent, pending with no start and no end
\* time; for StepPassEvent and StepFailEvent, passed or failed with both times;
\* for ScenarioPassEvent and ScenarioFailEvent, passed or failed with both
\* times, and with the failed step's result the last of its step results;
\* for ScenarioSkipEvent, skipped with no time and no step result.
C34_HandlersSeeConsistentResult ==
    firing =>
        /\ Handled.type = "ScenarioRunEvent" =>
              /\ scenario_result.status = "PENDING"
              /\ scenario_result.started_at = NONE
              /\ scenario_result.ended_at = NONE
              /\ scenario_result.step_results = <<>>
        /\ Handled.type = "StepRunEvent" =>
              /\ step_result.step = Handled.step
              /\ step_result.status = "PENDING"
              /\ step_result.started_at = NONE
              /\ step_result.ended_at = NONE
        /\ Handled.type = "StepPassEvent" =>
              /\ step_result.step = Handled.step
              /\ step_result.status = "PASSED"
              /\ Final(step_result)
        /\ Handled.type = "StepFailEvent" =>
              /\ step_result.step = Handled.step
              /\ step_result.status = "FAILED"
              /\ step_result.exc_info # "None"
              /\ Final(step_result)
        /\ Handled.type = "ScenarioPassEvent" =>
              /\ scenario_result.status = "PASSED"
              /\ Final(scenario_result)
              /\ Len(scenario_result.step_results) = scenario.steps
        /\ Handled.type = "ScenarioFailEvent" =>
              /\ scenario_result.status = "FAILED"
              /\ Final(scenario_result)
              /\ scenario_result.step_results # <<>>
              /\ scenario_result.step_results[Len(scenario_result.step_results)]
                    = step_result
              /\ step_result.status = "FAILED"
        /\ Handled.type = "ScenarioSkipEvent" =>
              /\ scenario_result.status = "SKIPPED"
              /\ scenario_result.started_at = NONE
              /\ scenario_result.ended_at = NONE
              /\ scenario_result.step_results = <<>>

\* The handlers of ScenarioFailEvent run for a scenario whose second step
\* failed: its result holds the results of both steps.
C34_Witness ==
    /\ firing
    /\ Handled.type = "ScenarioFailEvent"
    /\ Len(scenario_result.step_results) = 2
    /\ scenario_result.step_results[1].status = "PASSED"
    /\ scenario_result.step_results[2].status = "FAILED"

\* C35: once a step body has raised an exception of an interrupt class, the
\* run is at the handling of StepFailEvent or has been left by the exception;
\* the scenario has no ScenarioPassEvent and no ScenarioFailEvent, its result
\* is pending with a start time, no end time and without the result of the
\* interrupted step, and the report counts only the scenarios before it.
C35_InterruptedScenarioStaysPending ==
    step_result.exc_info \in {"KeyboardInterrupt", "SystemExit", "CancelledError"} =>
        /\ pc \in {"step_failed", "raised"}
        /\ \A i \in 1..Len(events) :
              events[i].scenario = idx =>
                  events[i].type \notin {"ScenarioPassEvent", "ScenarioFailEvent"}
        /\ scenario_result.status = "PENDING"
        /\ scenario_result.started_at # NONE
        /\ scenario_result.ended_at = NONE
        /\ \A i \in 1..Len(scenario_result.step_results) :
              scenario_result.step_results[i].step # step_result.step
        /\ report.total = idx - 1
        /\ returned = NoReport

\* SystemExit raised by the second step of the second scenario has left the
\* run: the report counts the first scenario only.
C35_Witness ==
    /\ pc = "raised"
    /\ exc = "SystemExit"
    /\ idx = 2
    /\ step_result.step = 2
    /\ Len(scenario_result.step_results) = 1
    /\ report.total = 1

\* One and the same result object before and after the step.
SameScenarioResult == idx' = idx /\ pc # "run_loop"
SameStepResult == SameScenarioResult /\ step_result'.step = step_result.step

\* C36: a field of a result is assigned only while it has its initial value
\* (the status only while pending, a time only while unset), so none is
\* assigned twice; the scenario result run_scenario returns is skipped, failed
\* or passed; the step result run_step returns is passed or failed and has
\* both its times.
C36_AssignedOnce ==
    /\ [][SameScenarioResult =>
            /\ scenario_result'.status # scenario_result.status
                  => scenario_result.status = "PENDING"
            /\ scenario_result'.started_at # scenario_result.started_at
                  => scenario_result.started_at = NONE
            /\ scenario_result'.ended_at # scenario_result.ended_at
                  => scenario_result.ended_at = NONE]_vars
    /\ [][SameStepResult =>
            /\ step_result'.status # step_result.status
                  => step_result.status = "PENDING"
            /\ step_result'.started_at # step_result.started_at
                  => step_result.started_at = NONE
            /\ step_result'.ended_at # step_result.ended_at
                  => step_result.ended_at = NONE]_vars
    /\ [](pc = "scenario_return" /\ ~firing
            => scenario_result.status \in {"SKIPPED", "FAILED", "PASSED"})
    /\ [](pc = "step_return" /\ ~firing
            => /\ step_result.status \in {"PASSED", "FAILED"}
               /\ Final(step_result))

\* run_scenario returns a failed result with its two times and the results of
\* a passed and a failed step.
C36_Witness ==
    /\ pc = "scenario_return"
    /\ ~firing
    /\ scenario_result.status = "FAILED"
    /\ Final(scenario_result)
    /\ Len(scenario_result.step_results) = 2

(***************************************************************************)
(* Properties of the scenarios view, checked under SpecView.               *)
(***************************************************************************)
\* The position of a key in the list the generator runs over.
PlaceOf(id) == CHOOSE j \in 1..Len(v_snapshot) : v_snapshot[j] = id

YieldedIds == {v_yielded[i].id : i \in 1..Len(v_yielded)}

\* C37: a step of the generator raises nothing but the StopIteration of its
\* end; no scenario is yielded that had been ignored before the step that
\* yielded it; the scenarios are yielded in the order they had when the
\* generator started, none twice; what was yielded stays as it was whatever is
\* ignored afterwards; and when the generator has ended every scenario that
\* was there when it started and was never ignored has been yielded.
C37_ViewToleratesIgnore ==
    /\ [](v_raised \in {"None", "StopIteration"})
    /\ [](\A i \in 1..Len(v_yielded) :
             /\ v_yielded[i].id \notin v_yielded[i].ignored
             /\ v_yielded[i].id \in Range(v_snapshot))
    /\ [](\A i, j \in 1..Len(v_yielded) :
             i < j => PlaceOf(v_yielded[i].id) < PlaceOf(v_yielded[j].id))
    /\ [](v_pc = "exhausted" =>
             \A id \in Range(v_snapshot) : id \notin v_ignored => id \in YieldedIds)
    /\ [][/\ Len(v_yielded') >= Len(v_yielded)
          /\ SubSeq(v_yielded', 1, Len(v_yielded)) = v_yielded]_vars

\* Of three scenarios the first was yielded, then the second was ignored, and
\* the generator went on to the third and to its end.
C37_Witness ==
    /\ v_pc = "exhausted"
    /\ v_snapshot = <<1, 2, 3>>
    /\ v_ignored = {2}
    /\ Len(v_yielded) = 2
    /\ v_yielded[1] = [id |-> 1, ignored |-> {}]
    /\ v_yielded[2] = [id |-> 3, ignored |-> {2}]

(***************************************************************************)
(* Properties of the SystemUpgradePlugin, checked under SpecUpgrade.       *)
(***************************************************************************)
\* The version as one number.
Weight(version) == version[1] * (MaxVersion + 1) + version[2]

StrictlyNewer(new_version, cur_version) ==
    /\ new_version \in Versions
    /\ Weight(new_version) > Weight(cur_version)

\* C39: the thread runs only once on_startup has started it; on_cleanup can
\* take each of its steps wherever the thread is: it waits for nothing; at
\* most one line is added to the report, and only when on_cleanup read a
\* stored version strictly newer than the running one, which the thread had
\* stored and ended; when the request failed or gave no version, or the
\* thread had not ended when on_cleanup read, on_cleanup adds nothing and
\* raises nothing; and on_cleanup raises only on a stored version that is not
\* numeric.
C39_UpgradeLineOnlyIfFetched ==
    /\ su_fetch # "not_started" => su_pc # "init"
    /\ su_pc = "started" => ENABLED cleanup_join
    /\ su_pc = "joined" => ENABLED cleanup_read
    /\ su_pc = "compare" => ENABLED cleanup_compare
    /\ Len(su_lines) <= 1
    /\ su_lines # <<>> =>
          /\ su_pc = "cleaned"
          /\ StrictlyNewer(su_seen, su_cur)
          /\ su_fetch_at_read = "done"
          /\ su_lines = <<[cur |-> su_cur, latest |-> su_seen]>>
    /\ (/\ su_pc = "cleaned"
        /\ \/ su_fetch_at_read # "done"
           \/ su_response.kind \in {"None", "no_version"})
          => (su_lines = <<>> /\ su_raised = "None")
    /\ su_raised # "None" => (su_pc = "cleaned" /\ su_seen = Malformed)

\* on_cleanup has returned without a line while the thread was still waiting
\* for the response; the thread then stored a newer version.
C39_Witness ==
    /\ su_pc = "cleaned"
    /\ su_fetch_at_read = "requesting"
    /\ su_fetch = "done"
    /\ StrictlyNewer(su_latest, su_cur)
    /\ su_lines = <<>>
    /\ su_raised = "None"
====
